---- MODULE Spec2Model ----
(***************************************************************************)
(* State-machine model of WalkingModule (walking-controllers): the FSM,    *)
(* the trajectory buffers, the merge-point scheduler and the remote        *)
(* commands, as implemented in src/modules/Walking_module/src/             *)
(* WalkingModule.cpp.  Two threads act on the module: the periodic thread  *)
(* that calls updateModule and the RPC thread that serves the commands.    *)
(***************************************************************************)
EXTENDS Integers, Sequences, FiniteSets, TLC

VARIABLES
    m_robotState,                 \* WalkingFSM
    m_time,                       \* m_time, counted in sampling periods m_dT
    m_desiredPosition,            \* goal handed to the planner
    m_newTrajectoryRequired,      \* re-plan flag
    m_newTrajectoryMergeCounter,  \* merge countdown
    m_mergePoints,                \* deque of merge points
    m_buffers,                    \* the trajectory deques whose samples are read, by name
    m_bufferSizes,                \* size() of the other trajectory deques, by name
    m_trajectoryGenerator,        \* the planner object (TrajectoryGenerator)
    m_mutex,                      \* who holds m_mutex
    rpcPc,                        \* position of the RPC thread
    running,                      \* the periodic loop is still alive
    lastOp,                       \* history: the most recent handler and its result
    requestBeforeStop,            \* history: the pending re-plan predates the last stop
    roundTrip,                    \* history: progress of start/pause/start after Prepared
    goalPair,                     \* history: accepted setGoal calls since the last tick
    configuration,                \* what configure() read: the toggles and the planner's set-up
    pendingRequest,               \* history: how the pending re-plan was scheduled and served
    m_QPIKSolver,                 \* the WalkingQPIK_osqp object
    torqueSolver                  \* a TaskBasedTorqueSolver object

vars == <<m_robotState, m_time, m_desiredPosition, m_newTrajectoryRequired,
          m_newTrajectoryMergeCounter, m_mergePoints, m_buffers, m_bufferSizes,
          m_trajectoryGenerator, m_mutex, rpcPc, running, lastOp,
          requestBeforeStop, roundTrip, goalPair, configuration, pendingRequest,
          m_QPIKSolver, torqueSolver>>

-----------------------------------------------------------------------------
(* Bounds of the model. *)

MaxTime == 14
RaceMaxTime == 2
MaxGoal == 1
HorizonLen == 24
DenseSecondMergePoint == 6
PipelineMaxTime == 9

\* The constraint rows of a QP and the largest entry of its vectors.
NumRows == 2
MaxRowValue == 2

\* The largest joint torque a QP solution holds.
MaxTorque == 2

\* The largest number of actuated joints of the layout specification.
MaxJoints == 6

\* The largest merge point drawn for a call of advanceReferenceSignals.
MaxMergePoint == 4

(* Program constants. *)

\* double tolerance = 1 in WalkingQPIK_osqp::isSolutionFeasible
IKTolerance == 1

\* evaluateZMP: 0.001 for one foot and 0.1 for the total, in units of 0.0005
ZMPFootThreshold == 2
ZMPTotalThreshold == 200

PlannerLeadTime == 10
SpliceCountdown == 2
AutoReplanHead == 21
UnsetCounter == -1

-----------------------------------------------------------------------------
(* Values. *)

FSMStates == {"Configured", "Preparing", "Prepared", "Walking", "Paused", "Stopped"}

Goals == {<<g, MaxGoal - g>> : g \in 0..MaxGoal}
NoGoal == <<>>
Uninitialized == <<>>

\* The sixteen trajectory deques.  The samples of four of them decide what the
\* module does (the contact flags, the fixed-frame flag) or are looked up by
\* index (the DCM position); of the other twelve only the size matters here.
ContentBuffers ==
    {"m_leftInContact", "m_rightInContact", "m_isLeftFixedFrame",
     "m_DCMPositionDesired"}

SizedBuffers ==
    {"m_leftTrajectory", "m_rightTrajectory",
     "m_leftTwistTrajectory", "m_rightTwistTrajectory",
     "m_leftAccelerationTrajectory", "m_rightAccelerationTrajectory",
     "m_ZMPPositionDesired", "m_DCMVelocityDesired",
     "m_comHeightTrajectory", "m_comHeightVelocity",
     "m_weightInLeft", "m_weightInRight"}

BufferNames == ContentBuffers \cup SizedBuffers

\* the deques advanceReferenceSignals tests for emptiness
CheckedBuffers ==
    {"m_leftTrajectory", "m_rightTrajectory", "m_leftInContact",
     "m_rightInContact", "m_DCMPositionDesired", "m_DCMVelocityDesired",
     "m_comHeightTrajectory"}

EmptyBuffers == [b \in ContentBuffers |-> <<>>]

EmptySizes == [b \in SizedBuffers |-> 0]

-----------------------------------------------------------------------------
(* The planner (TrajectoryGenerator): a bundle of HorizonLen samples and   *)
(* its merge points, the first of which is 0.                              *)

Shapes == {"stand", "step"}

\* A planner set up for short steps returns merge points that lie close
\* together.
DenseShapes == {"dense"}

ShapeIndex(sh) == IF sh = "stand" THEN 0 ELSE IF sh = "step" THEN 1 ELSE 2

\* "stand": the feet stay where they are; "step": the left foot swings
\* between the second and the third merge point; "dense": a short step, with
\* a merge point on either side of the swing.
PlanMergePoints(sh) ==
    CASE sh = "stand" -> <<0>>
      [] sh = "step"  -> <<0, 2, HorizonLen - 1>>
      [] OTHER        -> <<0, 2, DenseSecondMergePoint, HorizonLen - 1>>

PlanLeftInContact(sh, k) ==
    CASE sh = "stand" -> TRUE
      [] sh = "step"  -> k \notin 8..18
      [] OTHER        -> k \notin 3..5

PlanRightInContact(sh, k) == TRUE

PlanSample(b, sh, k) ==
    CASE b = "m_leftInContact"    -> PlanLeftInContact(sh, k)
      [] b = "m_rightInContact"   -> PlanRightInContact(sh, k)
      [] b = "m_isLeftFixedFrame" -> PlanLeftInContact(sh, k)
      [] OTHER                    -> 100 * ShapeIndex(sh) + k

PlanBundle(sh) == [b \in ContentBuffers |-> [k \in 1..HorizonLen |-> PlanSample(b, sh, k)]]

FirstShapes == Shapes \cup DenseShapes

generatorReset == [state |-> "Configured", shape |-> "stand"]

isTrajectoryComputed(gen) == gen.state = "Returned"

-----------------------------------------------------------------------------
(* Helpers on the deques. *)

Front(q) == q[1]

Range(q) == {q[i] : i \in 1..Len(q)}

IndexOf(seq, x) == CHOOSE i \in 1..Len(seq) : seq[i] = x

Back(q) == q[Len(q)]

\* StdHelper::appendVectorToDeque: the deque keeps its first initPoint samples
\* and the vector follows them.
appendVectorToDeque(input, output, initPoint) ==
    IF initPoint > Len(output)
    THEN output
    ELSE SubSeq(output, 1, initPoint) \o input

appendedSize(inputSize, outputSize, initPoint) ==
    IF initPoint > outputSize THEN outputSize ELSE initPoint + inputSize

\* pop_front followed by push_back(back()); the deques hold at least
\* HorizonLen >= 2 samples whenever this runs.
popAndHold(q) == IF Len(q) >= 2 THEN Tail(q) \o <<Back(q)>> ELSE q

\* a variant that pops the front and forgets the push_back
poppedSize(n) == IF n >= 2 THEN n - 1 ELSE n

poppedAndHeldSize(n) == IF n >= 2 THEN (n - 1) + 1 ELSE n

decrementAll(mp) == [i \in 1..Len(mp) |-> mp[i] - 1]

\* a variant that decrements the merge points and never drops the head
advanceMergePointsKeepingHead(mp) == decrementAll(mp)

\* Lines 108-115: every merge point goes down by one, then the head is dropped
\* when it is zero; an empty deque is left alone.
advanceMergePoints(mp) ==
    IF mp = <<>>
    THEN mp
    ELSE IF decrementAll(mp)[1] = 0 THEN Tail(decrementAll(mp)) ELSE decrementAll(mp)

isEmptyBuffer(buf, sizes, b) ==
    IF b \in ContentBuffers THEN buf[b] = <<>> ELSE sizes[b] = 0

\* advanceReferenceSignals: [ok, buffers, sizes, mergePoints]
advanceReferenceSignals(buf, sizes, mp) ==
    IF \E b \in CheckedBuffers : isEmptyBuffer(buf, sizes, b)
    THEN [ok |-> FALSE, buffers |-> buf, sizes |-> sizes, mergePoints |-> mp]
    ELSE [ok |-> TRUE,
          buffers |-> [b \in ContentBuffers |-> popAndHold(buf[b])],
          sizes |-> [b \in SizedBuffers |-> poppedAndHeldSize(sizes[b])],
          mergePoints |-> advanceMergePoints(mp)]

\* A variant of updateTrajectories that discards the old tail before it asks
\* the planner whether a trajectory is there.
updateTrajectoriesDroppingTail(gen, buf, sizes, mp, mergePoint) ==
    IF ~isTrajectoryComputed(gen)
    THEN [ok |-> FALSE,
          buffers |-> [b \in ContentBuffers |->
                          appendVectorToDeque(<<>>, buf[b], mergePoint)],
          sizes |-> [b \in SizedBuffers |-> appendedSize(0, sizes[b], mergePoint)],
          mergePoints |-> mp]
    ELSE [ok |-> TRUE,
          buffers |-> [b \in ContentBuffers |->
                          appendVectorToDeque(PlanBundle(gen.shape)[b], buf[b], mergePoint)],
          sizes |-> [b \in SizedBuffers |->
                          appendedSize(HorizonLen, sizes[b], mergePoint)],
          mergePoints |-> Tail(PlanMergePoints(gen.shape))]

\* A variant of updateTrajectories that adds the new merge points behind the
\* stored ones instead of replacing them.
updateTrajectoriesAppendingMergePoints(gen, buf, sizes, mp, mergePoint) ==
    IF ~isTrajectoryComputed(gen)
    THEN [ok |-> FALSE, buffers |-> buf, sizes |-> sizes, mergePoints |-> mp]
    ELSE [ok |-> TRUE,
          buffers |-> [b \in ContentBuffers |->
                          appendVectorToDeque(PlanBundle(gen.shape)[b], buf[b], mergePoint)],
          sizes |-> [b \in SizedBuffers |->
                          appendedSize(HorizonLen, sizes[b], mergePoint)],
          mergePoints |-> mp \o Tail(PlanMergePoints(gen.shape))]

\* updateTrajectories(mergePoint): [ok, buffers, sizes, mergePoints]
updateTrajectories(gen, buf, sizes, mp, mergePoint) ==
    IF ~isTrajectoryComputed(gen)
    THEN [ok |-> FALSE, buffers |-> buf, sizes |-> sizes, mergePoints |-> mp]
    ELSE [ok |-> TRUE,
          buffers |-> [b \in ContentBuffers |->
                          appendVectorToDeque(PlanBundle(gen.shape)[b], buf[b], mergePoint)],
          sizes |-> [b \in SizedBuffers |->
                          appendedSize(HorizonLen, sizes[b], mergePoint)],
          mergePoints |-> Tail(PlanMergePoints(gen.shape))]

\* A variant of setPlannerInput that stores the goal on every path that
\* returns true, also when a re-plan is already pending.
setPlannerInputLastWins(mp, bothInContact, required, counter, desired, goal) ==
    LET stored(c) == [ret |-> TRUE, required |-> TRUE, counter |-> c, desired |-> goal]
    IN  IF mp = <<>>
        THEN IF ~bothInContact
             THEN [ret |-> FALSE, required |-> required, counter |-> counter,
                   desired |-> desired]
             ELSE IF required THEN stored(counter) ELSE stored(PlannerLeadTime)
        ELSE IF Front(mp) > PlannerLeadTime THEN stored(Front(mp))
             ELSE IF required THEN stored(counter)
             ELSE IF Len(mp) > 1 THEN stored(mp[2]) ELSE stored(PlannerLeadTime)

\* A variant of setPlannerInput without the early returns on a pending
\* request: every goal sets the countdown anew.
setPlannerInputRestartingCountdown(mp, bothInContact, required, counter, desired, goal) ==
    LET scheduled(c) == [ret |-> TRUE, required |-> TRUE, counter |-> c,
                         desired |-> goal]
    IN  IF mp = <<>>
        THEN IF ~bothInContact
             THEN [ret |-> FALSE, required |-> required, counter |-> counter,
                   desired |-> desired]
             ELSE scheduled(PlannerLeadTime)
        ELSE IF Front(mp) > PlannerLeadTime THEN scheduled(Front(mp))
             ELSE IF Len(mp) > 1 THEN scheduled(mp[2])
             ELSE scheduled(PlannerLeadTime)

\* A variant of setPlannerInput that takes the countdown from the first merge
\* point where the code takes it from the second.
setPlannerInputFirstMergePoint(mp, bothInContact, required, counter, desired, goal) ==
    LET unchanged(r) == [ret |-> r, required |-> required, counter |-> counter,
                         desired |-> desired]
        scheduled(c) == [ret |-> TRUE, required |-> TRUE, counter |-> c,
                         desired |-> goal]
    IN  IF mp = <<>>
        THEN IF ~bothInContact THEN unchanged(FALSE)
             ELSE IF required THEN unchanged(TRUE)
             ELSE scheduled(PlannerLeadTime)
        ELSE IF Front(mp) > PlannerLeadTime THEN scheduled(Front(mp))
             ELSE IF Len(mp) > 1
                  THEN IF required THEN unchanged(TRUE) ELSE scheduled(Front(mp))
                  ELSE IF required THEN unchanged(TRUE) ELSE scheduled(PlannerLeadTime)

\* A variant of setPlannerInput that never looks at the second merge point.
setPlannerInputIgnoringSecond(mp, bothInContact, required, counter, desired, goal) ==
    LET unchanged(r) == [ret |-> r, required |-> required, counter |-> counter,
                         desired |-> desired]
        scheduled(c) == [ret |-> TRUE, required |-> TRUE, counter |-> c,
                         desired |-> goal]
    IN  IF mp = <<>>
        THEN IF ~bothInContact THEN unchanged(FALSE)
             ELSE IF required THEN unchanged(TRUE)
             ELSE scheduled(PlannerLeadTime)
        ELSE IF Front(mp) > PlannerLeadTime THEN scheduled(Front(mp))
             ELSE IF required THEN unchanged(TRUE) ELSE scheduled(PlannerLeadTime)

\* setPlannerInput(x, y) on the scheduler fields: [ret, required, counter, desired]
setPlannerInput(mp, bothInContact, required, counter, desired, goal) ==
    LET unchanged(r) == [ret |-> r, required |-> required, counter |-> counter,
                         desired |-> desired]
        scheduled(c) == [ret |-> TRUE, required |-> TRUE, counter |-> c,
                         desired |-> goal]
    IN  IF mp = <<>>
        THEN IF ~bothInContact THEN unchanged(FALSE)
             ELSE IF required THEN unchanged(TRUE)
             ELSE scheduled(PlannerLeadTime)
        ELSE IF Front(mp) > PlannerLeadTime THEN scheduled(Front(mp))
             ELSE IF Len(mp) > 1
                  THEN IF required THEN unchanged(TRUE) ELSE scheduled(mp[2])
                  ELSE IF required THEN unchanged(TRUE) ELSE scheduled(PlannerLeadTime)

bothFeetInContact(buf) == Front(buf["m_leftInContact"]) /\ Front(buf["m_rightInContact"])

-----------------------------------------------------------------------------
(* History variables' values. *)

\* no sample of the DCM reference was read
NoSample == -1

\* a variant of evaluateZMP that asks for one loaded foot instead of a total
evaluateZMPOneFoot(left, right) ==
    [ok |-> ~(left < ZMPFootThreshold) \/ ~(right < ZMPFootThreshold),
     left |-> left, right |-> right,
     leftWeight |-> IF left < ZMPFootThreshold THEN 0 ELSE left,
     rightWeight |-> IF right < ZMPFootThreshold THEN 0 ELSE right]

\* evaluateZMP (lines 1298-1352) on the measured vertical forces, in units of
\* 0.0005: whether it succeeds, and the weight each foot's ZMP gets in the
\* average (its numerator, force times zmpLeftDefined or zmpRightDefined).
evaluateZMP(left, right) ==
    [ok |-> ~(left + right < ZMPTotalThreshold),
     left |-> left, right |-> right,
     leftWeight |-> IF left < ZMPFootThreshold THEN 0 ELSE left,
     rightWeight |-> IF right < ZMPFootThreshold THEN 0 ELSE right]

NoZMP == [ok |-> FALSE, left |-> 0, right |-> 0, leftWeight |-> 0, rightWeight |-> 0]

\* Vertical forces that carry the robot, and forces of a robot in the air.
NominalForces == <<ZMPTotalThreshold, ZMPTotalThreshold>>

LowForces == <<0, 0>>

\* The vertical forces the sensors deliver, around the two thresholds.
ForceValues == {-2, 1, ZMPFootThreshold, ZMPTotalThreshold - ZMPFootThreshold,
                ZMPTotalThreshold}

ForcePairs == ForceValues \X ForceValues

\* The merge point setPlannerInput takes the countdown from (lines
\* 1737-1773): the first when it is more than 10 samples ahead, else the
\* second when there is one; 0 when the countdown is the constant 10.
countdownSource(mp) ==
    IF mp = <<>> THEN 0
    ELSE IF Front(mp) > PlannerLeadTime THEN 1
    ELSE IF Len(mp) > 1 THEN 2 ELSE 0

\* A request that setPlannerInput wrote: `late` when its countdown was set
\* below the planner's lead time, `called` once askNewTrajectories ran for it.
\* `mergePoint` is the place in m_mergePoints of the merge point the
\* countdown was taken from (0: none, -1: it has been dropped).
NewRequest(counter, mp) ==
    [late |-> counter < PlannerLeadTime, called |-> FALSE,
     mergePoint |-> countdownSource(mp)]

NoRequest == [late |-> FALSE, called |-> FALSE, mergePoint |-> 0]

\* The place of a merge point after the merge points were replaced by those
\* of a first plan: it is stored no longer.
placeAfterReplacement(place) == IF place = 0 THEN 0 ELSE 0 - 1

\* The place of a merge point after `dropped` merge points were popped.
placeAfterAdvance(place, dropped) ==
    IF place < 1 \/ dropped = 0 THEN place
    ELSE IF place = 1 THEN 0 - 1 ELSE place - 1

Call(op, ok, arg) ==
    [op |-> op, ok |-> ok, from |-> m_robotState, arg |-> arg, failedAt |-> "none",
     asked |-> FALSE, spliced |-> FALSE, stale |-> FALSE,
     steps |-> <<>>, commands |-> <<>>, reference |-> NoSample,
     request |-> NoRequest, advancedFrom |-> <<>>,
     zmp |-> NoZMP, uses |-> {}, columns |-> <<>>,
     frontReads |-> <<>>]

NoOp == [op |-> "none", ok |-> TRUE, from |-> "Configured", arg |-> NoGoal,
         failedAt |-> "none", asked |-> FALSE, spliced |-> FALSE, stale |-> FALSE,
         steps |-> <<>>, commands |-> <<>>, reference |-> NoSample,
         request |-> NoRequest, advancedFrom |-> <<>>,
     zmp |-> NoZMP, uses |-> {}, columns |-> <<>>,
     frontReads |-> <<>>]

Snapshot(buf, sizes, mp, t, req, cnt) ==
    [buffers |-> buf, sizes |-> sizes, mergePoints |-> mp, time |-> t,
     required |-> req, counter |-> cnt]

NoSnapshot == Snapshot(EmptyBuffers, EmptySizes, <<>>, 0, FALSE, UnsetCounter)

CurrentSnapshot ==
    Snapshot(m_buffers, m_bufferSizes, m_mergePoints, m_time, m_newTrajectoryRequired,
             m_newTrajectoryMergeCounter)

NoRoundTrip == [phase |-> 0, snap |-> NoSnapshot]

SchedulerFields(des, req, cnt) == [desired |-> des, required |-> req, counter |-> cnt]

NoGoalPair == [n |-> 0, start |-> SchedulerFields(Uninitialized, FALSE, UnsetCounter),
               first |-> NoGoal]

\* whether setPlannerInput writes a new request (as opposed to returning early)
WritesRequest(mp, bothInContact, required) ==
    \/ mp # <<>> /\ Front(mp) > PlannerLeadTime
    \/ ~required /\ (mp # <<>> \/ bothInContact)


-----------------------------------------------------------------------------
(* The QP solvers: WalkingQPIK_osqp and TaskBasedTorqueSolver. *)

Rows == 1..NumRows

RowVectors == [Rows -> (0 - MaxRowValue)..MaxRowValue]

MaxCoeff(v) == CHOOSE x \in Range(v) : \A y \in Range(v) : y <= x

MinCoeff(v) == CHOOSE x \in Range(v) : \A y \in Range(v) : x <= y

\* The bounds of a QP: equality rows (the feet tasks) or a box (the joint
\* velocity limits).
BoundPairs ==
    {[l |-> [i \in Rows |-> 0], u |-> [i \in Rows |-> 0]],
     [l |-> [i \in Rows |-> -1], u |-> [i \in Rows |-> 1]]}

\* What the optimizer returns: constrainedOutput is the constraint matrix
\* times the solution, torque the joint-torque entries of the solution.
Problems ==
    {[constrainedOutput |-> a, m_lowerBound |-> b.l, m_upperBound |-> b.u, torque |-> t] :
        a \in RowVectors, b \in BoundPairs, t \in 1..MaxTorque}

NominalProblem ==
    [constrainedOutput |-> [i \in Rows |-> 0], m_lowerBound |-> [i \in Rows |-> 0],
     m_upperBound |-> [i \in Rows |-> 0], torque |-> 1]

\* WalkingQPIK_osqp::isSolutionFeasible (lines 415-428)
isSolutionFeasible(p) ==
    \/ MaxCoeff([i \in Rows |-> p.constrainedOutput[i] - p.m_upperBound[i]]) < IKTolerance
    \/ MaxCoeff([i \in Rows |-> p.constrainedOutput[i] - p.m_lowerBound[i]]) > 0 - IKTolerance

\* The four parts of the problem, in the order solve() hands them over.
SolveStages == <<"hessian", "gradient", "constraint", "bounds">>

\* Where a solve() can fail on account of the optimizer library.
SolveFailures == Range(SolveStages) \cup {"initSolver", "optimizer"}

\* a variant of the setters that hands the data over as initial data even
\* when the optimizer is initialized
setProblemDataAsInitial(initialized, failAt) ==
    LET n == IF failAt \in Range(SolveStages) THEN IndexOf(SolveStages, failAt)
                                               ELSE Len(SolveStages)
    IN  [ok |-> failAt \notin Range(SolveStages),
         calls |-> [i \in 1..n |-> <<"set", SolveStages[i]>>]]

\* setHessianMatrix, setGradientVector, setLinearConstraintMatrix, setBounds:
\* each updates the optimizer when it is initialized and sets the initial
\* data otherwise; the first that fails ends the solve.
setProblemData(initialized, failAt) ==
    LET n == IF failAt \in Range(SolveStages) THEN IndexOf(SolveStages, failAt)
                                               ELSE Len(SolveStages)
    IN  [ok |-> failAt \notin Range(SolveStages),
         calls |-> [i \in 1..n |->
                      <<IF initialized THEN "update" ELSE "set", SolveStages[i]>>]]

\* The optimizer part of solve(): initSolver when the optimizer is not
\* initialized, then the optimizer's solve.
runOptimizer(initialized, failAt) ==
    LET d == setProblemData(initialized, failAt)
        init == IF initialized THEN <<>> ELSE << <<"call", "initSolver">> >>
    IN  IF ~d.ok
        THEN [solved |-> FALSE, calls |-> d.calls, initialized |-> initialized]
        ELSE IF ~initialized /\ failAt = "initSolver"
        THEN [solved |-> FALSE, calls |-> d.calls \o init, initialized |-> FALSE]
        ELSE [solved |-> failAt # "optimizer",
              calls |-> d.calls \o init \o << <<"call", "solve">> >>,
              initialized |-> TRUE]

\* The largest distance of a row of constrainedOutput from its bounds.
WorstViolation(p) ==
    MaxCoeff([i \in Rows |->
                IF p.constrainedOutput[i] > p.m_upperBound[i]
                THEN p.constrainedOutput[i] - p.m_upperBound[i]
                ELSE IF p.constrainedOutput[i] < p.m_lowerBound[i]
                THEN p.m_lowerBound[i] - p.constrainedOutput[i]
                ELSE 0])

\* a solve() that leaves m_isSolutionEvaluated alone until it succeeds
WalkingQPIK_osqp_solveKeepingFlag(s, failAt, p) ==
    LET r == runOptimizer(s.initialized, failAt)
        ok == r.solved /\ isSolutionFeasible(p)
    IN  [initialized |-> r.initialized,
         m_isSolutionEvaluated |-> s.m_isSolutionEvaluated \/ ok,
         ret |-> ok, solved |-> r.solved, calls |-> r.calls,
         wasInitialized |-> s.initialized, called |-> TRUE,
         wasEvaluated |-> s.m_isSolutionEvaluated,
         violation |-> IF r.solved THEN WorstViolation(p) ELSE 0]

\* WalkingQPIK_osqp::solve (lines 360-413)
WalkingQPIK_osqp_solve(s, failAt, p) ==
    LET r == runOptimizer(s.initialized, failAt)
        ok == r.solved /\ isSolutionFeasible(p)
    IN  [initialized |-> r.initialized,
         m_isSolutionEvaluated |-> ok,
         ret |-> ok, solved |-> r.solved, calls |-> r.calls,
         wasInitialized |-> s.initialized, called |-> TRUE,
         wasEvaluated |-> s.m_isSolutionEvaluated,
         violation |-> IF r.solved THEN WorstViolation(p) ELSE 0]

\* a solve() that checks isSolutionFeasible before it stores the torque
TaskBasedTorqueSolver_solveChecking(s, failAt, p) ==
    LET r == runOptimizer(s.initialized, failAt)
        ok == r.solved /\ WorstViolation(p) = 0
    IN  [initialized |-> r.initialized,
         m_desiredJointTorque |-> IF ok THEN p.torque ELSE s.m_desiredJointTorque,
         ret |-> ok, solved |-> r.solved, calls |-> r.calls,
         wasInitialized |-> s.initialized, called |-> TRUE,
         previousTorque |-> s.m_desiredJointTorque,
         violation |-> IF r.solved THEN WorstViolation(p) ELSE 0,
         m_actuatedDOFs |-> s.m_actuatedDOFs, support |-> s.support,
         m_numberOfVariables |-> s.m_numberOfVariables]

\* TaskBasedTorqueSolver::solve (lines 882-980): the call of
\* isSolutionFeasible is commented out (lines 961-966).
TaskBasedTorqueSolver_solve(s, failAt, p) ==
    LET r == runOptimizer(s.initialized, failAt)
    IN  [initialized |-> r.initialized,
         m_desiredJointTorque |-> IF r.solved THEN p.torque ELSE s.m_desiredJointTorque,
         ret |-> r.solved, solved |-> r.solved, calls |-> r.calls,
         wasInitialized |-> s.initialized, called |-> TRUE,
         previousTorque |-> s.m_desiredJointTorque,
         violation |-> IF r.solved THEN WorstViolation(p) ELSE 0,
         m_actuatedDOFs |-> s.m_actuatedDOFs, support |-> s.support,
         m_numberOfVariables |-> s.m_numberOfVariables]

\* The solver objects as initialize() leaves them.
QPIKInitialized ==
    [initialized |-> FALSE, m_isSolutionEvaluated |-> FALSE, ret |-> FALSE,
     solved |-> FALSE, calls |-> <<>>, wasInitialized |-> FALSE, called |-> FALSE,
     wasEvaluated |-> FALSE, violation |-> 0]

\* The size of the base part of the acceleration and of one contact wrench.
BaseDOFs == 6

WrenchSize == 6

SupportModes == {"double", "single"}

\* TaskBasedTorqueSolverDoubleSupport::setNumberOfVariables (lines 1345-1353)
\* and TaskBasedTorqueSolverSingleSupport::setNumberOfVariables (1681-1689)
setNumberOfVariables(nJ, support) ==
    IF support = "double" THEN BaseDOFs + nJ + nJ + WrenchSize + WrenchSize
                          ELSE BaseDOFs + nJ + nJ + WrenchSize

\* TaskBasedTorqueSolver::initialize (lines 354-495) for nJ actuated joints.
TaskBasedTorqueSolver_initialize(nJ, support, torque) ==
    [initialized |-> FALSE, m_desiredJointTorque |-> torque, ret |-> FALSE,
     solved |-> FALSE, calls |-> <<>>, wasInitialized |-> FALSE, called |-> FALSE,
     previousTorque |-> torque, violation |-> 0,
     m_actuatedDOFs |-> nJ, support |-> support,
     m_numberOfVariables |-> setNumberOfVariables(nJ, support)]

TorqueSolverInitialized(torque) == TaskBasedTorqueSolver_initialize(1, "double", torque)

\* The columns of the decision vector an element of `size` entries placed at
\* `start` works on, entry by entry.
Columns(start, size) == [i \in 1..size |-> start + (i - 1)]

\* The loop of solve() that stores the torque (lines 968-969).
desiredJointTorqueColumns(nJ) == [i \in 1..nJ |-> (i - 1) + nJ + BaseDOFs]

\* getLeftWrench (lines 1082-1089) and getStanceWrench (lines 1759-1765)
getLeftWrench(nJ) == [i \in 1..WrenchSize |-> BaseDOFs + nJ + nJ + (i - 1)]

\* a getRightWrench that reads where getLeftWrench reads
getRightWrenchAtLeft(nJ) == [i \in 1..WrenchSize |-> BaseDOFs + nJ + nJ + (i - 1)]

\* getRightWrench (lines 1091-1099)
getRightWrench(nJ) ==
    [i \in 1..WrenchSize |-> BaseDOFs + nJ + nJ + WrenchSize + (i - 1)]

\* What the solver reads back from the solution, by support mode.
Getters(nJ, support) ==
    IF support = "double"
    THEN {[name |-> "desiredJointTorque", columns |-> desiredJointTorqueColumns(nJ)],
          [name |-> "getLeftWrench", columns |-> getLeftWrench(nJ)],
          [name |-> "getRightWrench", columns |-> getRightWrench(nJ)]}
    ELSE {[name |-> "desiredJointTorque", columns |-> desiredJointTorqueColumns(nJ)],
          [name |-> "getStanceWrench", columns |-> getLeftWrench(nJ)]}

\* The cost and constraint elements initialize() places on the torque and on
\* the wrenches, with the starting column of setSubMatricesStartingPosition:
\* torque regularization (line 342), rate of change (line 175), ZMP (lines
\* 1155, 1511), contact forces (lines 1270, 1283, 1623), force regularization
\* (lines 1327, 1335, 1669). The ZMP constraint spans every active wrench and
\* a force constraint one wrench.
\* The number of columns of a contact-force constraint and of the ZMP
\* constraint: one wrench, and one wrench for every foot in contact.
ForceConstraintColumns == WrenchSize

ZMPConstraintColumns(support) ==
    IF support = "double" THEN WrenchSize + WrenchSize ELSE WrenchSize

Elements(nJ, support) ==
    {[name |-> "regularization_torque", columns |-> Columns(BaseDOFs + nJ, nJ)],
     [name |-> "rate_of_change", columns |-> Columns(nJ + BaseDOFs, nJ)]}
    \cup
    IF support = "double"
    THEN {[name |-> "zmp", columns |-> Columns(BaseDOFs + nJ + nJ, ZMPConstraintColumns(support))],
          [name |-> "left_force",
           columns |-> Columns(2 * nJ + BaseDOFs, ForceConstraintColumns)],
          [name |-> "right_force",
           columns |-> Columns(2 * nJ + BaseDOFs + WrenchSize, ForceConstraintColumns)],
          [name |-> "regularization_left_force",
           columns |-> Columns(BaseDOFs + nJ + nJ, WrenchSize)],
          [name |-> "regularization_right_force",
           columns |-> Columns(BaseDOFs + nJ + nJ + WrenchSize, WrenchSize)]}
    ELSE {[name |-> "zmp", columns |-> Columns(BaseDOFs + nJ + nJ, ZMPConstraintColumns(support))],
          [name |-> "stance_force",
           columns |-> Columns(2 * nJ + BaseDOFs, ForceConstraintColumns)],
          [name |-> "regularization_stance_force",
           columns |-> Columns(BaseDOFs + nJ + nJ, WrenchSize)]}

QPIKGetters == {"getSolution", "getLeftFootError", "getRightFootError"}

\* getSolution, getLeftFootError, getRightFootError (lines 430-474)
getSolution(s) == s.m_isSolutionEvaluated

-----------------------------------------------------------------------------
(* Initial state: the state configure() leaves. *)

\* configure() with use_step_adaptation given and the other toggles left at
\* their default, false (lines 178-181): every object the Walking tick uses
\* is created. The force sensors deliver the weight of the robot or nothing.
DefaultConfiguration ==
    [m_useStepAdaptation |-> TRUE, m_useMPC |-> FALSE, m_useQPIK |-> FALSE,
     plannerShapes |-> Shapes, contactForces |-> {NominalForces, LowForces}]

\* configure() with use_QP-IK given either way; the planner returns steps.
PipelineConfigurations ==
    {[DefaultConfiguration EXCEPT !.m_useQPIK = q, !.plannerShapes = {"step"}] :
        q \in BOOLEAN}

\* configure() with a planner set up for short steps.
DenseConfiguration ==
    [DefaultConfiguration EXCEPT !.plannerShapes = {"stand"} \cup DenseShapes]

\* What configure() leaves whatever the options are.
ConfiguredState ==
    /\ m_robotState = "Configured"
    /\ m_time = 0
    /\ m_desiredPosition = Uninitialized
    /\ m_newTrajectoryRequired = FALSE
    /\ m_newTrajectoryMergeCounter = UnsetCounter
    /\ m_mergePoints = <<>>
    /\ m_buffers = EmptyBuffers
    /\ m_bufferSizes = EmptySizes
    /\ m_trajectoryGenerator = generatorReset
    /\ m_mutex = "free"
    /\ rpcPc = "idle"
    /\ running = TRUE
    /\ lastOp = NoOp
    /\ requestBeforeStop = FALSE
    /\ roundTrip = NoRoundTrip
    /\ goalPair = NoGoalPair
    /\ pendingRequest = NoRequest
    /\ m_QPIKSolver = QPIKInitialized
    /\ torqueSolver = TorqueSolverInitialized(1)

Init == configuration = DefaultConfiguration /\ ConfiguredState

InitPipeline == configuration \in PipelineConfigurations /\ ConfiguredState

InitDense == configuration = DenseConfiguration /\ ConfiguredState

\* The merge points a planner may leave: positive and strictly increasing.
MergePointLists ==
    {<<>>} \cup {<<a>> : a \in 1..MaxMergePoint}
           \cup {p \in (1..MaxMergePoint) \X (1..MaxMergePoint) : p[1] < p[2]}

\* The states advanceReferenceSignals is called in: the deques are all empty
\* (nothing was planned) or all hold a planned horizon.
InitAdvance ==
    /\ configuration = [DefaultConfiguration EXCEPT !.plannerShapes = FirstShapes]
    /\ \/ /\ m_robotState = "Configured"
          /\ m_buffers = EmptyBuffers
          /\ m_bufferSizes = EmptySizes
          /\ m_mergePoints = <<>>
          /\ m_trajectoryGenerator = generatorReset
       \/ \E sh \in FirstShapes :
             /\ m_robotState = "Walking"
             /\ m_buffers = PlanBundle(sh)
             /\ m_bufferSizes = [b \in SizedBuffers |-> HorizonLen]
             /\ m_mergePoints \in MergePointLists
             /\ m_trajectoryGenerator = [state |-> "Returned", shape |-> sh]
    /\ m_time = 0
    /\ m_desiredPosition = Uninitialized
    /\ m_newTrajectoryRequired = FALSE
    /\ m_newTrajectoryMergeCounter = UnsetCounter
    /\ m_mutex = "free"
    /\ rpcPc = "idle"
    /\ running = TRUE
    /\ lastOp = NoOp
    /\ requestBeforeStop = FALSE
    /\ roundTrip = NoRoundTrip
    /\ goalPair = NoGoalPair
    /\ pendingRequest = NoRequest
    /\ m_QPIKSolver = QPIKInitialized
    /\ torqueSolver = TorqueSolverInitialized(1)

-----------------------------------------------------------------------------
(* The remote commands. *)

\* A command that takes m_mutex for its whole body runs when the mutex is free.
LockedCommand == running /\ rpcPc = "idle" /\ m_mutex = "free"

\* a variant of the check of line 1356 that also passes in Prepared
prepareRobotFromPrepared(state) == state \in {"Configured", "Stopped", "Prepared"}

prepareRobotAllowed(state) == state \in {"Configured", "Stopped"}

\* prepareRobot, first part (lines 1356-1406): the state check, the feedback
\* read and generateFirstTrajectories, all without m_mutex.
PrepareRobotGenerate ==
    /\ running /\ rpcPc = "idle"
    /\ roundTrip' = NoRoundTrip
    /\ goalPair' = NoGoalPair
    /\ UNCHANGED <<configuration, m_QPIKSolver, torqueSolver>>
    /\ UNCHANGED <<m_robotState, m_desiredPosition, m_newTrajectoryRequired,
                   m_newTrajectoryMergeCounter, m_mutex, running, requestBeforeStop>>
    /\ IF ~prepareRobotAllowed(m_robotState)
       THEN /\ lastOp' = Call("prepareRobot", FALSE, NoGoal)
            /\ UNCHANGED <<m_time, m_mergePoints, m_buffers, m_bufferSizes,
                           m_trajectoryGenerator, rpcPc, pendingRequest>>
       ELSE \E feedback \in BOOLEAN, planned \in BOOLEAN,
               sh \in FirstShapes \cap configuration.plannerShapes :
              IF ~feedback \/ ~planned
              THEN /\ lastOp' = Call("prepareRobot", FALSE, NoGoal)
                   /\ UNCHANGED <<m_time, m_mergePoints, m_buffers, m_bufferSizes,
                                  m_trajectoryGenerator, rpcPc, pendingRequest>>
              ELSE LET gen == [state |-> "Returned", shape |-> sh]
                       upd == updateTrajectories(gen, m_buffers, m_bufferSizes,
                                                 m_mergePoints, 0)
                   IN  /\ m_trajectoryGenerator' = gen
                       /\ m_buffers' = upd.buffers
                       /\ m_bufferSizes' = upd.sizes
                       /\ m_mergePoints' = upd.mergePoints
                       /\ m_time' = 0
                       /\ rpcPc' = "prepareRobot"
                       /\ lastOp' = Call("generateFirstTrajectories", TRUE, NoGoal)
                       /\ pendingRequest' =
                             [pendingRequest EXCEPT
                                !.mergePoint = placeAfterReplacement(@)]

\* prepareRobot, second part (lines 1408-1468): the inverse kinematics and the
\* position command, then m_robotState is set under m_mutex.
PrepareRobotCommit ==
    /\ running /\ rpcPc = "prepareRobot"
    /\ \E ik \in BOOLEAN :
         IF ~ik
         THEN /\ lastOp' = Call("prepareRobot", FALSE, NoGoal)
              /\ UNCHANGED <<m_robotState>>
         ELSE /\ m_mutex = "free"
              /\ m_robotState' = "Preparing"
              /\ lastOp' = Call("prepareRobot", TRUE, NoGoal)
    /\ rpcPc' = "idle"
    /\ UNCHANGED <<m_time, m_desiredPosition, m_newTrajectoryRequired,
                   m_newTrajectoryMergeCounter, m_mergePoints, m_buffers, m_bufferSizes,
                   m_trajectoryGenerator, m_mutex, running, requestBeforeStop,
                   roundTrip>>
    /\ goalPair' = NoGoalPair
    /\ UNCHANGED <<configuration, pendingRequest, m_QPIKSolver, torqueSolver>>

\* a variant of the check of line 1700 that also passes in Stopped
startWalkingFromStopped(state) == state \in {"Prepared", "Paused", "Stopped"}

startWalkingAllowed(state) == state \in {"Prepared", "Paused"}

StartWalking ==
    /\ LockedCommand
    /\ IF startWalkingAllowed(m_robotState)
       THEN /\ m_robotState' = "Walking"
            /\ lastOp' = Call("startWalking", TRUE, NoGoal)
            /\ roundTrip' = IF roundTrip.phase \in {1, 3}
                            THEN [roundTrip EXCEPT !.phase = @ + 1]
                            ELSE NoRoundTrip
       ELSE /\ lastOp' = Call("startWalking", FALSE, NoGoal)
            /\ roundTrip' = NoRoundTrip
            /\ UNCHANGED m_robotState
    /\ UNCHANGED <<m_time, m_desiredPosition, m_newTrajectoryRequired,
                   m_newTrajectoryMergeCounter, m_mergePoints, m_buffers, m_bufferSizes,
                   m_trajectoryGenerator, m_mutex, rpcPc, running, requestBeforeStop>>
    /\ goalPair' = NoGoalPair
    /\ UNCHANGED <<configuration, pendingRequest, m_QPIKSolver, torqueSolver>>

\* a variant of the check of line 1788 that also passes in Paused
setGoalWhilePaused(state) == state \in {"Walking", "Paused"}

setGoalAllowed(state) == state = "Walking"

SetGoal ==
    /\ LockedCommand
    /\ \E goal \in Goals :
         IF ~setGoalAllowed(m_robotState)
         THEN /\ lastOp' = Call("setGoal", FALSE, NoGoal)
              /\ goalPair' = NoGoalPair
              /\ UNCHANGED <<m_desiredPosition, m_newTrajectoryRequired,
                             m_newTrajectoryMergeCounter, requestBeforeStop,
                             pendingRequest>>
         ELSE LET r == setPlannerInput(m_mergePoints, bothFeetInContact(m_buffers),
                                       m_newTrajectoryRequired,
                                       m_newTrajectoryMergeCounter,
                                       m_desiredPosition, goal)
              IN  /\ m_desiredPosition' = r.desired
                  /\ m_newTrajectoryRequired' = r.required
                  /\ m_newTrajectoryMergeCounter' = r.counter
                  /\ lastOp' = Call("setGoal", r.ret, goal)
                  /\ goalPair' =
                        IF ~r.ret THEN NoGoalPair
                        ELSE IF goalPair.n = 1 THEN [goalPair EXCEPT !.n = 2]
                        ELSE [n |-> 1,
                              start |-> SchedulerFields(m_desiredPosition,
                                                        m_newTrajectoryRequired,
                                                        m_newTrajectoryMergeCounter),
                              first |-> goal]
                  /\ requestBeforeStop' =
                        IF WritesRequest(m_mergePoints, bothFeetInContact(m_buffers),
                                         m_newTrajectoryRequired)
                        THEN FALSE ELSE requestBeforeStop
                  /\ pendingRequest' =
                        IF WritesRequest(m_mergePoints, bothFeetInContact(m_buffers),
                                         m_newTrajectoryRequired)
                        THEN NewRequest(r.counter, m_mergePoints) ELSE pendingRequest
    /\ roundTrip' = NoRoundTrip
    /\ UNCHANGED <<m_robotState, m_time, m_mergePoints, m_buffers, m_bufferSizes,
                   m_trajectoryGenerator, m_mutex, rpcPc, running, configuration,
                   m_QPIKSolver, torqueSolver>>

\* a variant of the check of line 1798 that also passes in Prepared
pauseWalkingFromPrepared(state) == state \in {"Walking", "Prepared"}

pauseWalkingAllowed(state) == state = "Walking"

PauseWalking ==
    /\ LockedCommand
    /\ IF pauseWalkingAllowed(m_robotState)
       THEN /\ m_robotState' = "Paused"
            /\ lastOp' = Call("pauseWalking", TRUE, NoGoal)
            /\ roundTrip' = IF roundTrip.phase = 2
                            THEN [roundTrip EXCEPT !.phase = 3]
                            ELSE NoRoundTrip
       ELSE /\ lastOp' = Call("pauseWalking", FALSE, NoGoal)
            /\ roundTrip' = NoRoundTrip
            /\ UNCHANGED m_robotState
    /\ UNCHANGED <<m_time, m_desiredPosition, m_newTrajectoryRequired,
                   m_newTrajectoryMergeCounter, m_mergePoints, m_buffers, m_bufferSizes,
                   m_trajectoryGenerator, m_mutex, rpcPc, running, requestBeforeStop>>
    /\ goalPair' = NoGoalPair
    /\ UNCHANGED <<configuration, pendingRequest, m_QPIKSolver, torqueSolver>>

stopWalkingAllowed(state) == state = "Walking"

\* A variant of stopWalking that clears the trajectory deques and the merge
\* points.
StopWalkingClearing ==
    /\ LockedCommand
    /\ IF stopWalkingAllowed(m_robotState)
       THEN /\ m_trajectoryGenerator' = generatorReset
            /\ m_robotState' = "Stopped"
            /\ lastOp' = Call("stopWalking", TRUE, NoGoal)
            /\ requestBeforeStop' = m_newTrajectoryRequired
            /\ m_mergePoints' = <<>>
            /\ m_buffers' = EmptyBuffers
            /\ m_bufferSizes' = EmptySizes
       ELSE /\ lastOp' = Call("stopWalking", FALSE, NoGoal)
            /\ UNCHANGED <<m_robotState, m_trajectoryGenerator, requestBeforeStop,
                           m_mergePoints, m_buffers, m_bufferSizes>>
    /\ roundTrip' = NoRoundTrip
    /\ goalPair' = NoGoalPair
    /\ UNCHANGED <<configuration, pendingRequest, m_QPIKSolver, torqueSolver>>
    /\ UNCHANGED <<m_time, m_desiredPosition, m_newTrajectoryRequired,
                   m_newTrajectoryMergeCounter, m_mutex, rpcPc, running>>

\* reset() (lines 419-431): of the modelled state only the planner is reset.
StopWalking ==
    /\ LockedCommand
    /\ IF stopWalkingAllowed(m_robotState)
       THEN /\ m_trajectoryGenerator' = generatorReset
            /\ m_robotState' = "Stopped"
            /\ lastOp' = Call("stopWalking", TRUE, NoGoal)
            /\ requestBeforeStop' = m_newTrajectoryRequired
       ELSE /\ lastOp' = Call("stopWalking", FALSE, NoGoal)
            /\ UNCHANGED <<m_robotState, m_trajectoryGenerator, requestBeforeStop>>
    /\ roundTrip' = NoRoundTrip
    /\ goalPair' = NoGoalPair
    /\ UNCHANGED <<configuration, pendingRequest, m_QPIKSolver, torqueSolver>>
    /\ UNCHANGED <<m_time, m_desiredPosition, m_newTrajectoryRequired,
                   m_newTrajectoryMergeCounter, m_mergePoints, m_buffers, m_bufferSizes,
                   m_mutex, rpcPc, running>>

-----------------------------------------------------------------------------
(* The periodic thread: updateModule. *)

\* The steps of a Walking tick that fail on their own account, in code order:
\* the planner request (line 814), the steps before the DCM lookup of line 881
\* and the steps after it.
EarlySteps == {"feedback", "fk_update", "zmp"}

LateSteps == {"step_adaptor", "dcm_controller", "zmp_controller", "qp",
              "torque_command"}

\* evaluateZMP fails on account of the measured contact forces.
ExternalSteps == {"planner_request"} \cup (EarlySteps \ {"zmp"}) \cup LateSteps

\* What an empty m_mergePoints gives when its front() is read.
GarbageHeads == {0, AutoReplanHead, 2 * HorizonLen + AutoReplanHead}

\* a variant in which a failing Walking tick assigns Stopped before it returns
stoppedAfterFailure(state) == "Stopped"

\* The FSM state a failing Walking tick leaves: the tick returns false and
\* m_robotState is not assigned.
robotStateAfterFailure(state) == state

\* The Walking branch of updateModule (lines 763-1294), in three stages.
\* goalIn is what the goal port delivers, garbage what front() of an empty
\* merge-point deque reads, unset what an unset m_desiredPosition reads,
\* failing the step that fails on its own account ("none": no such step).

\* Lines 772-790: the goal port, then the automatic re-plan.
WalkingGoals(goalIn, garbage, unset) ==
    LET both == bothFeetInContact(m_buffers)
        p0 == [ret |-> TRUE, required |-> m_newTrajectoryRequired,
               counter |-> m_newTrajectoryMergeCounter, desired |-> m_desiredPosition]
        p1 == IF goalIn = NoGoal
              THEN p0
              ELSE setPlannerInput(m_mergePoints, both, m_newTrajectoryRequired,
                                   m_newTrajectoryMergeCounter, m_desiredPosition,
                                   goalIn)
        head == IF m_mergePoints = <<>> THEN garbage ELSE Front(m_mergePoints)
        auto == p1.ret /\ head = AutoReplanHead /\ goalIn = NoGoal
        p2 == IF auto
              THEN setPlannerInput(m_mergePoints, both, p1.required, p1.counter,
                                   p1.desired,
                                   IF p1.desired = Uninitialized THEN unset
                                                                ELSE p1.desired)
              ELSE p1
        written == \/ goalIn # NoGoal
                      /\ WritesRequest(m_mergePoints, both, m_newTrajectoryRequired)
                   \/ auto /\ WritesRequest(m_mergePoints, both, p1.required)
    IN  [failedAt |-> IF ~p1.ret THEN "goal_input"
                      ELSE IF ~p2.ret THEN "auto_replan" ELSE "none",
         required |-> p2.required, counter |-> p2.counter, desired |-> p2.desired,
         stale |-> IF written THEN FALSE ELSE requestBeforeStop,
         request |-> IF written THEN NewRequest(p2.counter, m_mergePoints)
                                ELSE pendingRequest]

\* A variant of the re-plan block that asks the planner one tick late.
WalkingReplanAskingLate(q) ==
    LET asks == q.required /\ q.counter = PlannerLeadTime - 1
        splices == q.required /\ q.counter = SpliceCountdown
    IN  [asks |-> asks,
         splices |-> splices,
         inRange |-> q.counter < Len(m_buffers["m_DCMPositionDesired"]),
         generator |-> IF asks THEN [m_trajectoryGenerator EXCEPT !.state = "Called"]
                               ELSE m_trajectoryGenerator,
         upd |-> IF splices
                 THEN updateTrajectories(m_trajectoryGenerator, m_buffers,
                                         m_bufferSizes, m_mergePoints, q.counter)
                 ELSE [ok |-> TRUE, buffers |-> m_buffers, sizes |-> m_bufferSizes,
                       mergePoints |-> m_mergePoints],
         required |-> IF splices THEN FALSE ELSE q.required,
         counter |-> IF q.required THEN q.counter - 1 ELSE q.counter]

\* Lines 795-847: the planner is asked at countdown 10, the new trajectory is
\* spliced at countdown 2, the countdown goes down by one.
WalkingReplan(q) ==
    LET asks == q.required /\ q.counter = PlannerLeadTime
        splices == q.required /\ q.counter = SpliceCountdown
    IN  [asks |-> asks,
         splices |-> splices,
         \* askNewTrajectories refuses a merge point beyond the DCM deque
         inRange |-> q.counter < Len(m_buffers["m_DCMPositionDesired"]),
         generator |-> IF asks THEN [m_trajectoryGenerator EXCEPT !.state = "Called"]
                               ELSE m_trajectoryGenerator,
         upd |-> IF splices
                 THEN updateTrajectories(m_trajectoryGenerator, m_buffers,
                                         m_bufferSizes, m_mergePoints, q.counter)
                 ELSE [ok |-> TRUE, buffers |-> m_buffers, sizes |-> m_bufferSizes,
                       mergePoints |-> m_mergePoints],
         required |-> IF splices THEN FALSE ELSE q.required,
         counter |-> IF q.required THEN q.counter - 1 ELSE q.counter]

\* Where the tick stops: the first failing step in code order, or "none".
WalkingFailure(q, u, garbage, failing) ==
    LET head == IF u.upd.mergePoints = <<>> THEN garbage ELSE Front(u.upd.mergePoints)
    IN  IF q.failedAt # "none" THEN q.failedAt
        ELSE IF u.asks /\ (~u.inRange \/ failing = "planner_request")
             THEN "planner_request"
        ELSE IF ~u.upd.ok THEN "splice"
        ELSE IF failing \in EarlySteps THEN failing
        \* line 881: m_DCMPositionDesired.at(m_mergePoints.front())
        ELSE IF ~(head < Len(u.upd.buffers["m_DCMPositionDesired"])) THEN "dcm_lookup"
        ELSE IF failing = "step_adaptor" /\ bothFeetInContact(u.upd.buffers) THEN "none"
        ELSE IF failing \in LateSteps THEN failing
        ELSE "none"

\* What the tick leaves when it stops at `label`; lines 1288-1291 run only
\* when nothing failed.
WalkingOutcome(q, u, label) ==
    LET old == [buffers |-> m_buffers, sizes |-> m_bufferSizes,
                mergePoints |-> m_mergePoints]
        out(req, cnt, des, gen, bufs, t, a, s, st) ==
            [ok |-> label = "none", failedAt |-> label, required |-> req,
             counter |-> cnt, desired |-> des, generator |-> gen, bufs |-> bufs,
             time |-> t, asked |-> a, spliced |-> s, stale |-> st]
    IN  IF label \in {"goal_input", "auto_replan"}
        THEN out(m_newTrajectoryRequired, m_newTrajectoryMergeCounter,
                 m_desiredPosition, m_trajectoryGenerator, old, m_time,
                 FALSE, FALSE, requestBeforeStop)
        ELSE IF label = "planner_request"
        THEN out(q.required, q.counter, q.desired, m_trajectoryGenerator, old, m_time,
                 FALSE, FALSE, q.stale)
        ELSE IF label = "splice"
        THEN out(q.required, q.counter, q.desired, u.generator, u.upd, m_time,
                 u.asks, FALSE, q.stale)
        ELSE IF label # "none"
        THEN out(u.required, u.counter, q.desired, u.generator, u.upd, m_time,
                 u.asks, u.splices, q.stale)
        ELSE out(u.required, u.counter, q.desired, u.generator,
                 advanceReferenceSignals(u.upd.buffers, u.upd.sizes, u.upd.mergePoints),
                 m_time + 1, u.asks, u.splices, q.stale)

TickRecord(ok, label, a, s, st) ==
    [op |-> "updateModule", ok |-> ok, from |-> m_robotState, arg |-> NoGoal,
     failedAt |-> label, asked |-> a, spliced |-> s, stale |-> st,
     steps |-> <<>>, commands |-> <<>>, reference |-> NoSample,
     request |-> NoRequest, advancedFrom |-> <<>>,
     zmp |-> NoZMP, uses |-> {}, columns |-> <<>>,
     frontReads |-> <<>>]

\* The steps of a Walking tick after the re-plan block, in the order of the
\* code: lines 861, 869, 875, 903-999, 1002-1057, 1077, 1117-1198, 1246, 1291.
StepOrder ==
    <<"feedback", "fk_update", "zmp", "step_adaptor", "dcm_controller",
      "zmp_controller", "qp", "torque_command", "advance_references">>

\* a variant of line 903 that enters the step adjustment in every tick
stepAdaptorAlways(leftInContact, rightInContact) == TRUE

\* line 903: the step adjustment runs unless both feet are in contact
stepAdaptorInvoked(leftInContact, rightInContact) ==
    ~leftInContact \/ ~rightInContact

\* The steps a Walking tick enters when it stops at `label` ("none": it runs
\* to its end), the last one being the step that failed. When the step
\* adjustment is not entered, the else branch of lines 992-999 copies the
\* stored adapted foot transforms and twists in its place.
WalkingSteps(label, buf) ==
    LET adapts == stepAdaptorInvoked(Front(buf["m_leftInContact"]),
                                     Front(buf["m_rightInContact"]))
        planned == [i \in 1..Len(StepOrder) |->
                      IF StepOrder[i] = "step_adaptor" /\ ~adapts
                      THEN "stored_foot_references" ELSE StepOrder[i]]
    IN  IF label \in {"goal_input", "auto_replan", "planner_request", "splice"}
        THEN <<>>
        ELSE IF label = "dcm_lookup" THEN SubSeq(planned, 1, IndexOf(planned, "zmp"))
        ELSE IF label = "none" THEN planned
        ELSE SubSeq(planned, 1, IndexOf(planned, label))

\* The reads of m_mergePoints.front() in a Walking tick: at line 783, reached
\* unless setPlannerInput failed on the goal of the port, on the deque as the
\* tick finds it, and at line 881, reached once evaluateZMP has succeeded, on
\* the deque as the re-plan block leaves it. `empty`: the deque had no front;
\* `valid`: the front was an index of m_DCMPositionDesired.
frontReads(before, afterReplan, dcmLen, q, label, steps) ==
    (IF q.failedAt = "goal_input" THEN <<>>
     ELSE << [line |-> 783, empty |-> before = <<>>, valid |-> TRUE] >>)
    \o
    (IF "zmp" \in Range(steps) /\ label # "zmp"
     THEN << [line |-> 881, empty |-> afterReplan = <<>>,
              valid |-> afterReplan # <<>> /\ Front(afterReplan) < dcmLen] >>
     ELSE <<>>)

\* The controller objects configure() creates (lines 246-320, 363-373): the
\* step adaptor, the MPC or the reactive DCM controller and the QP-IK solver
\* by their toggles, the others always.
createdObjects(c) ==
    {"m_IKSolver", "m_contactWrenchMapping", "m_walkingAdmittanceController"}
    \cup (IF c.m_useStepAdaptation THEN {"m_stepAdaptator"} ELSE {})
    \cup (IF c.m_useMPC THEN {"m_walkingController"}
                        ELSE {"m_walkingDCMReactiveController"})
    \cup (IF c.m_useQPIK THEN {"m_QPIKSolver"} ELSE {})

\* The controller objects a step of the Walking tick dereferences: the step
\* adaptor whenever the step adjustment is entered (lines 915-981, no test of
\* m_useStepAdaptation), the DCM controller of the m_useMPC branch (lines
\* 1002-1057, 1067-1070), the IK solver of the m_useQPIK branch (lines
\* 1117-1175) and, once that has succeeded, the admittance controller and the
\* wrench mapping, both of which read the output of the reactive DCM
\* controller whatever m_useMPC is (lines 1184, 1194, 574, 497).
objectsOfStep(c, step, completed) ==
    CASE step = "step_adaptor" -> {"m_stepAdaptator"}
      [] step \in {"dcm_controller", "zmp_controller"} ->
            IF c.m_useMPC THEN {"m_walkingController"}
                          ELSE {"m_walkingDCMReactiveController"}
      [] step = "qp" ->
            (IF c.m_useQPIK THEN {"m_QPIKSolver"} ELSE {"m_IKSolver"})
            \cup (IF completed
                  THEN {"m_walkingAdmittanceController", "m_contactWrenchMapping",
                        "m_walkingDCMReactiveController"}
                  ELSE {})
      [] OTHER -> {}

\* The objects a Walking tick dereferences when it stops at `label`.
objectsUsed(c, label, steps) ==
    UNION {objectsOfStep(c, steps[i], steps[i] # label) : i \in DOMAIN steps}

\* a variant in which the IK mode sends the integrated joint positions
walkingCommandsPositionInIK(useQPIK) ==
    IF useQPIK THEN <<"position">> ELSE <<"torque">>

\* The joint commands a Walking tick sends when it reaches line 1246:
\* setTorqueReferences, whatever m_useQPIK is (the position command of lines
\* 1176-1180 is commented out).
walkingCommands(useQPIK) == <<"torque">>

\* a variant in which the controllers read the references after the advance
referenceAfterAdvance(before, after) == Front(after)

\* The DCM reference the controllers read (lines 884, 1039): the front sample
\* of the deque as it is before advanceReferenceSignals (line 1291) runs.
referenceRead(before, after) == Front(before)

\* a variant in which a failed feedback read also rolls the FSM back
preparingStateRollsBack(outcome, state) ==
    CASE outcome \in {"no_feedback", "check_failed"} -> "Stopped"
      [] outcome = "done"  -> "Prepared"
      [] OTHER             -> state

\* The FSM state a Preparing tick leaves: a failed feedback read returns false
\* at line 706 with no assignment, a failed checkMotionDone assigns Stopped
\* (line 716), a finished motion assigns Prepared (line 759).
preparingStateAfter(outcome, state) ==
    CASE outcome = "check_failed" -> "Stopped"
      [] outcome = "done"         -> "Prepared"
      [] OTHER                    -> state

\* lines 701-762
UpdateModulePreparing ==
    /\ m_robotState = "Preparing"
    /\ UNCHANGED <<m_time, m_desiredPosition, m_newTrajectoryRequired,
                   m_newTrajectoryMergeCounter, m_mergePoints, m_buffers, m_bufferSizes, rpcPc,
                   requestBeforeStop, pendingRequest, m_QPIKSolver>>
    /\ \E outcome \in {"no_feedback", "check_failed", "moving", "done"} :
         /\ m_robotState' = preparingStateAfter(outcome, m_robotState)
         /\ CASE outcome = "no_feedback" ->
                /\ running' = FALSE
                /\ lastOp' = TickRecord(FALSE, "feedback", FALSE, FALSE, FALSE)
                /\ UNCHANGED <<m_trajectoryGenerator, roundTrip>>
              [] outcome = "check_failed" ->
                /\ m_trajectoryGenerator' = generatorReset
                /\ lastOp' = TickRecord(TRUE, "motion_done", FALSE, FALSE, FALSE)
                /\ UNCHANGED <<running, roundTrip>>
              [] outcome = "moving" ->
                /\ lastOp' = TickRecord(TRUE, "none", FALSE, FALSE, FALSE)
                /\ UNCHANGED <<m_trajectoryGenerator, running, roundTrip>>
              [] outcome = "done" ->
                /\ lastOp' = TickRecord(TRUE, "none", FALSE, FALSE, FALSE)
                /\ roundTrip' = [phase |-> 1, snap |-> CurrentSnapshot]
                /\ UNCHANGED <<m_trajectoryGenerator, running>>

\* The values front() of the merge-point deque can give in this tick: garbage
\* when the deque is empty at line 783 or at line 881.
HeadReads ==
    IF m_mergePoints = <<>>
       \/ (m_newTrajectoryRequired /\ isTrajectoryComputed(m_trajectoryGenerator)
           /\ Len(PlanMergePoints(m_trajectoryGenerator.shape)) = 1)
    THEN GarbageHeads
    ELSE {0}

\* The values an unset m_desiredPosition can give at line 785.
DesiredReads == IF m_desiredPosition = Uninitialized THEN Goals ELSE {m_desiredPosition}

\* The vertical contact forces getFeedbacks reads (line 861): any the sensors
\* deliver when no other step fails in this tick.
MeasuredForces(external) ==
    IF external = "none" THEN configuration.contactForces ELSE {NominalForces}

\* The step that fails in this tick: the one failing on its own account, or
\* evaluateZMP (line 875) on the measured forces.
FailingStep(external, forces) ==
    IF external = "none" /\ ~evaluateZMP(forces[1], forces[2]).ok THEN "zmp"
    ELSE external

\* How solveQPIK (line 1129) fails when the tick stops at the IK: at any
\* stage of WalkingQPIK_osqp::solve.
QPIKFailures(useQPIK, label) ==
    IF label # "qp" THEN {"none"}
    ELSE IF useQPIK THEN SolveFailures ELSE {"optimizer"}

\* lines 763-1294
UpdateModuleWalking ==
    /\ m_robotState = "Walking"
    /\ \E goalIn \in Goals \cup {NoGoal}, garbage \in HeadReads, unset \in DesiredReads :
         \E q \in {WalkingGoals(goalIn, garbage, unset)} :
           \E u \in {WalkingReplan(q)} :
             \E external \in ExternalSteps \cup {"none"} :
              \E forces \in MeasuredForces(external) :
              \E failing \in {FailingStep(external, forces)} :
               \E label \in {WalkingFailure(q, u, garbage, failing)} :
                /\ failing = "none" \/ label = failing
                /\ \E r \in {WalkingOutcome(q, u, label)},
                      steps \in {WalkingSteps(label, u.upd.buffers)} :
                   /\ m_robotState' = IF r.ok THEN m_robotState
                                              ELSE robotStateAfterFailure(m_robotState)
                   /\ running' = r.ok
                   /\ m_time' = r.time
                   /\ m_desiredPosition' = r.desired
                   /\ m_newTrajectoryRequired' = r.required
                   /\ m_newTrajectoryMergeCounter' = r.counter
                   /\ m_mergePoints' = r.bufs.mergePoints
                   /\ m_buffers' = r.bufs.buffers
                   /\ m_bufferSizes' = r.bufs.sizes
                   /\ m_trajectoryGenerator' = r.generator
                   /\ lastOp' =
                        [TickRecord(r.ok, r.failedAt, r.asked, r.spliced, r.stale)
                           EXCEPT !.steps = steps,
                                  !.zmp =
                                      IF "zmp" \in Range(steps)
                                      THEN evaluateZMP(forces[1], forces[2])
                                      ELSE NoZMP,
                                  !.frontReads =
                                      frontReads(m_mergePoints, u.upd.mergePoints,
                                                 Len(u.upd.buffers["m_DCMPositionDesired"]),
                                                 q, label, steps),
                                  !.uses =
                                      objectsUsed(configuration, label, steps),
                                  !.commands =
                                      IF r.ok THEN walkingCommands(configuration.m_useQPIK)
                                              ELSE <<>>,
                                  !.request =
                                      IF r.spliced \/ label = "splice"
                                      THEN q.request ELSE NoRequest,
                                  !.reference =
                                      IF "dcm_controller" \in Range(steps)
                                      THEN referenceRead(u.upd.buffers["m_DCMPositionDesired"],
                                                         r.bufs.buffers["m_DCMPositionDesired"])
                                      ELSE NoSample]
                   /\ requestBeforeStop' = IF r.spliced THEN FALSE ELSE r.stale
                   /\ \E solverFailure \in QPIKFailures(configuration.m_useQPIK, label) :
                        m_QPIKSolver' =
                              IF configuration.m_useQPIK /\ "qp" \in Range(steps)
                              THEN WalkingQPIK_osqp_solve(m_QPIKSolver, solverFailure,
                                                          NominalProblem)
                              ELSE m_QPIKSolver
                   /\ pendingRequest' =
                        IF label \in {"goal_input", "auto_replan"} THEN pendingRequest
                        ELSE IF r.spliced THEN NoRequest
                        ELSE [q.request EXCEPT
                                !.called = @ \/ r.asked,
                                !.mergePoint =
                                    placeAfterAdvance(@, Len(u.upd.mergePoints)
                                                         - Len(r.bufs.mergePoints))]
    /\ roundTrip' = NoRoundTrip
    /\ UNCHANGED rpcPc

\* A variant of the idle tick that keeps counting the merge points down.
UpdateModuleIdleAdvancing ==
    /\ m_robotState \notin {"Preparing", "Walking"}
    /\ lastOp' = TickRecord(TRUE, "none", FALSE, FALSE, FALSE)
    /\ m_mergePoints' = advanceMergePoints(m_mergePoints)
    /\ UNCHANGED <<m_robotState, m_time, m_desiredPosition, m_newTrajectoryRequired,
                   m_newTrajectoryMergeCounter, m_buffers, m_bufferSizes,
                   m_trajectoryGenerator, rpcPc, running, requestBeforeStop,
                   roundTrip, pendingRequest, m_QPIKSolver>>

\* lines 697-700 and 1295: in every other state the tick does nothing.
UpdateModuleIdle ==
    /\ m_robotState \notin {"Preparing", "Walking"}
    /\ lastOp' = TickRecord(TRUE, "none", FALSE, FALSE, FALSE)
    /\ UNCHANGED <<m_robotState, m_time, m_desiredPosition, m_newTrajectoryRequired,
                   m_newTrajectoryMergeCounter, m_mergePoints, m_buffers, m_bufferSizes,
                   m_trajectoryGenerator, rpcPc, running, requestBeforeStop,
                   roundTrip, pendingRequest, m_QPIKSolver>>

updateModuleBody ==
    /\ UpdateModulePreparing \/ UpdateModuleWalking \/ UpdateModuleIdle
    /\ goalPair' = NoGoalPair
    /\ UNCHANGED <<configuration, torqueSolver>>

\* One tick: updateModule holds m_mutex from its first line to its return.
UpdateModule ==
    /\ running /\ m_mutex = "free"
    /\ m_robotState = "Walking" => m_time < MaxTime
    /\ updateModuleBody
    /\ UNCHANGED m_mutex

\* The same tick in two steps: the lock_guard of line 699 is taken, and the
\* body runs to its return, which releases it.
UpdateModuleLock ==
    /\ running /\ m_mutex = "free"
    /\ m_robotState = "Walking" => m_time < RaceMaxTime
    /\ m_mutex' = "updateModule"
    /\ UNCHANGED <<m_robotState, m_time, m_desiredPosition, m_newTrajectoryRequired,
                   m_newTrajectoryMergeCounter, m_mergePoints, m_buffers, m_bufferSizes,
                   m_trajectoryGenerator, rpcPc, running, lastOp, requestBeforeStop,
                   roundTrip, goalPair, configuration, pendingRequest,
                   m_QPIKSolver, torqueSolver>>

UpdateModuleRun ==
    /\ running /\ m_mutex = "updateModule"
    /\ updateModuleBody
    /\ m_mutex' = "free"

\* The planner's own thread delivers the trajectory that was asked for.
PlannerCompute ==
    /\ running /\ m_trajectoryGenerator.state = "Called"
    /\ \E sh \in configuration.plannerShapes :
         m_trajectoryGenerator' = [state |-> "Returned", shape |-> sh]
    /\ UNCHANGED <<m_robotState, m_time, m_desiredPosition, m_newTrajectoryRequired,
                   m_newTrajectoryMergeCounter, m_mergePoints, m_buffers, m_bufferSizes, m_mutex,
                   rpcPc, running, lastOp, requestBeforeStop, roundTrip, goalPair,
                   configuration, pendingRequest, m_QPIKSolver, torqueSolver>>

-----------------------------------------------------------------------------

Next ==
    \/ PrepareRobotGenerate
    \/ PrepareRobotCommit
    \/ StartWalking
    \/ SetGoal
    \/ PauseWalking
    \/ StopWalking
    \/ UpdateModule
    \/ PlannerCompute

Spec == Init /\ [][Next]_vars

\* The two threads with the tick's critical section opened up: the commands
\* that take m_mutex wait for it, the steps that do not take it run at any time.
NextRace ==
    \/ PrepareRobotGenerate
    \/ PrepareRobotCommit
    \/ StartWalking
    \/ SetGoal
    \/ PauseWalking
    \/ StopWalking
    \/ UpdateModuleLock
    \/ UpdateModuleRun
    \/ PlannerCompute

SpecRace == Init /\ [][NextRace]_vars

\* The tick under a shorter bound on the time, for the configurations that
\* differ in the toggles.
UpdateModuleShort ==
    /\ running /\ m_mutex = "free"
    /\ m_robotState = "Walking" => m_time < PipelineMaxTime
    /\ updateModuleBody
    /\ UNCHANGED m_mutex

NextPipeline ==
    \/ PrepareRobotGenerate
    \/ PrepareRobotCommit
    \/ StartWalking
    \/ SetGoal
    \/ PauseWalking
    \/ StopWalking
    \/ UpdateModuleShort
    \/ PlannerCompute

SpecPipeline == InitPipeline /\ [][NextPipeline]_vars

\* The same with force sensors that deliver any pair of ForcePairs.
InitZMP ==
    /\ configuration = [DefaultConfiguration EXCEPT !.plannerShapes = {"step"},
                                                    !.contactForces = ForcePairs]
    /\ ConfiguredState

SpecZMP == InitZMP /\ [][NextPipeline]_vars

\* The module with a planner set up for short steps.
SpecDense == InitDense /\ [][Next]_vars

\* advanceReferenceSignals on its own (lines 41-117).
AdvanceReferenceSignals ==
    /\ \E r \in {advanceReferenceSignals(m_buffers, m_bufferSizes, m_mergePoints)} :
          /\ m_buffers' = r.buffers
          /\ m_bufferSizes' = r.sizes
          /\ m_mergePoints' = r.mergePoints
          /\ lastOp' = [Call("advanceReferenceSignals", r.ok, NoGoal)
                          EXCEPT !.advancedFrom = m_mergePoints]
    /\ UNCHANGED <<m_robotState, m_time, m_desiredPosition, m_newTrajectoryRequired,
                   m_newTrajectoryMergeCounter, m_trajectoryGenerator, m_mutex, rpcPc,
                   running, requestBeforeStop, roundTrip, goalPair, configuration,
                   pendingRequest, m_QPIKSolver, torqueSolver>>

NextAdvance == AdvanceReferenceSignals

\* Everything but the two solver objects and lastOp.
WalkingState ==
    <<m_robotState, m_time, m_desiredPosition, m_newTrajectoryRequired,
      m_newTrajectoryMergeCounter, m_mergePoints, m_buffers, m_bufferSizes,
      m_trajectoryGenerator, m_mutex, rpcPc, running, requestBeforeStop, roundTrip,
      goalPair, configuration, pendingRequest>>

\* configure() with use_QP-IK and use_osqp given: both solver objects exist.
InitSolvers ==
    /\ configuration = [DefaultConfiguration EXCEPT !.m_useQPIK = TRUE,
                                                    !.plannerShapes = {"step"}]
    /\ ConfiguredState

\* What the optimizer holds after a solve: any solution when nothing failed,
\* nothing new otherwise.
SolutionsAfter(failAt) == IF failAt = "none" THEN Problems ELSE {NominalProblem}

\* One call of WalkingQPIK_osqp::solve on what the optimizer returns.
QPIKSolve ==
    /\ \E failAt \in SolveFailures \cup {"none"} :
         \E p \in SolutionsAfter(failAt) :
          \E r \in {WalkingQPIK_osqp_solve(m_QPIKSolver, failAt, p)} :
            /\ p.torque = 1
            /\ m_QPIKSolver' = r
            /\ lastOp' = Call("WalkingQPIK_osqp::solve", r.ret, NoGoal)
    /\ UNCHANGED <<WalkingState, torqueSolver>>

\* One call of getSolution, getLeftFootError or getRightFootError.
QPIKGetSolution ==
    /\ \E getter \in QPIKGetters :
         lastOp' = Call(getter, getSolution(m_QPIKSolver), NoGoal)
    /\ UNCHANGED <<WalkingState, m_QPIKSolver, torqueSolver>>

\* One call of TaskBasedTorqueSolver::solve on what the optimizer returns.
TorqueSolve ==
    /\ \E failAt \in SolveFailures \cup {"none"} :
         \E p \in SolutionsAfter(failAt) :
          \E r \in {TaskBasedTorqueSolver_solve(torqueSolver, failAt, p)} :
            /\ torqueSolver' = r
            /\ lastOp' = Call("TaskBasedTorqueSolver::solve", r.ret, NoGoal)
    /\ UNCHANGED <<WalkingState, m_QPIKSolver>>

NextSolvers == QPIKSolve \/ QPIKGetSolution \/ TorqueSolve

SpecSolvers == InitSolvers /\ [][NextSolvers]_vars

SpecAdvance == InitAdvance /\ [][NextAdvance]_vars

\* configure() with every combination of use_step_adaptation, use_mpc and
\* use_QP-IK; the planner returns steps.
ToggleConfigurations ==
    {[DefaultConfiguration EXCEPT !.m_useStepAdaptation = a, !.m_useMPC = m,
                                  !.m_useQPIK = q, !.plannerShapes = {"step"},
                                  !.contactForces = {NominalForces}] :
        a \in BOOLEAN, m \in BOOLEAN, q \in BOOLEAN}

InitToggles == configuration \in ToggleConfigurations /\ ConfiguredState

SpecToggles == InitToggles /\ [][NextPipeline]_vars

\* The torque solver initialized for any number of joints, in either support
\* mode; the module is configured and does not run.
InitLayout ==
    /\ configuration = DefaultConfiguration
    /\ m_robotState = "Configured"
    /\ m_time = 0
    /\ m_desiredPosition = Uninitialized
    /\ m_newTrajectoryRequired = FALSE
    /\ m_newTrajectoryMergeCounter = UnsetCounter
    /\ m_mergePoints = <<>>
    /\ m_buffers = EmptyBuffers
    /\ m_bufferSizes = EmptySizes
    /\ m_trajectoryGenerator = generatorReset
    /\ m_mutex = "free"
    /\ rpcPc = "idle"
    /\ running = TRUE
    /\ lastOp = NoOp
    /\ requestBeforeStop = FALSE
    /\ roundTrip = NoRoundTrip
    /\ goalPair = NoGoalPair
    /\ pendingRequest = NoRequest
    /\ m_QPIKSolver = QPIKInitialized
    /\ torqueSolver \in {TaskBasedTorqueSolver_initialize(nJ, support, 1) :
                            nJ \in 1..MaxJoints, support \in SupportModes}

\* The solver reads one part of the solution back.
LayoutGet ==
    /\ \E g \in Getters(torqueSolver.m_actuatedDOFs, torqueSolver.support) :
         lastOp' = [Call(g.name, TRUE, NoGoal) EXCEPT !.columns = g.columns]
    /\ UNCHANGED <<WalkingState, m_QPIKSolver, torqueSolver>>

\* One cost or constraint element writes its block.
LayoutEvaluate ==
    /\ \E e \in Elements(torqueSolver.m_actuatedDOFs, torqueSolver.support) :
         lastOp' = [Call(e.name, TRUE, NoGoal) EXCEPT !.columns = e.columns]
    /\ UNCHANGED <<WalkingState, m_QPIKSolver, torqueSolver>>

NextLayout == LayoutGet \/ LayoutEvaluate

SpecLayout == InitLayout /\ [][NextLayout]_vars

TypeOK ==
    /\ m_robotState \in FSMStates
    /\ m_time \in 0..MaxTime
    /\ m_desiredPosition \in Goals \cup {Uninitialized}
    /\ m_newTrajectoryRequired \in BOOLEAN
    /\ m_newTrajectoryMergeCounter \in UnsetCounter..(2 * HorizonLen)
    /\ m_mutex \in {"free", "updateModule"}
    /\ rpcPc \in {"idle", "prepareRobot"}
    /\ running \in BOOLEAN
    /\ configuration.m_useQPIK \in BOOLEAN
    /\ configuration.m_useStepAdaptation \in BOOLEAN
    /\ configuration.m_useMPC \in BOOLEAN
    /\ configuration.contactForces \subseteq ForcePairs \cup {NominalForces, LowForces}
    /\ pendingRequest \in [late : BOOLEAN, called : BOOLEAN, mergePoint : -1..2]
    /\ configuration.plannerShapes \subseteq FirstShapes
    /\ \A b \in ContentBuffers : Len(m_buffers[b]) = m_bufferSizes["m_leftTrajectory"]
    /\ \A b \in SizedBuffers : m_bufferSizes[b] = m_bufferSizes["m_leftTrajectory"]

-----------------------------------------------------------------------------
(* Properties. *)

Buffers == <<m_buffers, m_bufferSizes>>

Scheduler == <<m_newTrajectoryRequired, m_newTrajectoryMergeCounter>>

\* C1: startWalking returns true, and moves the FSM to Walking, exactly when
\* the FSM state is Prepared or Paused; in every other state it returns false
\* and leaves the FSM state, the trajectory buffers, the merge points and the
\* re-plan flag and countdown as they were.
C1_StartWalkingGuard ==
    [][StartWalking =>
         /\ (lastOp'.ok <=> m_robotState \in {"Prepared", "Paused"})
         /\ (lastOp'.ok => m_robotState' = "Walking")
         /\ (~lastOp'.ok => UNCHANGED <<m_robotState, Buffers, m_mergePoints,
                                        Scheduler>>)]_vars

C1_RejectedWhileWalking ==
    /\ lastOp.op = "startWalking" /\ ~lastOp.ok
    /\ m_robotState = "Walking"
    /\ m_newTrajectoryRequired
    /\ m_mergePoints # <<>>

\* C2: setGoal called while the FSM state is not Walking returns false and
\* leaves the desired position, the re-plan flag and the merge countdown as
\* they were.
C2_SetGoalRejected ==
    [][(m_robotState # "Walking" /\ SetGoal) =>
         (~lastOp'.ok /\ UNCHANGED <<m_desiredPosition, Scheduler>>)]_vars

C2_RejectedWhilePaused ==
    /\ lastOp.op = "setGoal" /\ ~lastOp.ok
    /\ m_robotState = "Paused"
    /\ m_newTrajectoryRequired

\* The transitions the specification lists, each with the handler that makes it.
ListedTransitions ==
    {<<"Configured", "Preparing", "prepareRobot">>,
     <<"Preparing", "Prepared", "updateModule">>,
     <<"Prepared", "Walking", "startWalking">>,
     <<"Paused", "Walking", "startWalking">>,
     <<"Walking", "Paused", "pauseWalking">>,
     <<"Walking", "Stopped", "stopWalking">>,
     <<"Preparing", "Stopped", "updateModule">>}

\* C3 as stated: the FSM state changes only along the listed transitions.
C3_OnlyListedTransitions ==
    [][m_robotState' # m_robotState =>
         <<m_robotState, m_robotState', lastOp'.op>> \in ListedTransitions]_vars

\* C3: the FSM state changes only along the listed transitions and along
\* Stopped to Preparing, which prepareRobot makes.
C3_Transitions ==
    [][m_robotState' # m_robotState =>
         <<m_robotState, m_robotState', lastOp'.op>>
             \in ListedTransitions \cup {<<"Stopped", "Preparing", "prepareRobot">>}]_vars

C3_PreparedAgainAfterStop ==
    /\ m_robotState = "Preparing"
    /\ lastOp.op = "prepareRobot" /\ lastOp.ok /\ lastOp.from = "Stopped"

FailedWalkingTick ==
    lastOp.op = "updateModule" /\ lastOp.from = "Walking" /\ ~lastOp.ok

PlannerMissAtSplice ==
    /\ m_robotState = "Walking"
    /\ m_newTrajectoryRequired
    /\ m_newTrajectoryMergeCounter = SpliceCountdown
    /\ ~isTrajectoryComputed(m_trajectoryGenerator)
    /\ (m_mergePoints = <<>> \/ Front(m_mergePoints) <= PlannerLeadTime)

SingleSetGoal ==
    setPlannerInput(m_mergePoints, bothFeetInContact(m_buffers),
                    goalPair.start.required, goalPair.start.counter,
                    goalPair.start.desired, lastOp.arg)

\* C6 as stated: two accepted setGoal calls with no tick in between leave the
\* desired position, the re-plan flag and the countdown that one setGoal with
\* the last value leaves.
C6_LastGoalWins ==
    goalPair.n = 2 =>
        /\ m_desiredPosition = SingleSetGoal.desired
        /\ m_newTrajectoryRequired = SingleSetGoal.required
        /\ m_newTrajectoryMergeCounter = SingleSetGoal.counter

\* C6: two accepted setGoal calls with no tick in between leave the re-plan
\* flag and the countdown that one setGoal with the last value leaves; the
\* desired position is the last value only when the first merge point is more
\* than 10 samples ahead, and otherwise it is what the first call left: the
\* first value, or the earlier goal if a re-plan was pending already.
C6_FirstGoalKept ==
    goalPair.n = 2 =>
        /\ m_newTrajectoryRequired = SingleSetGoal.required
        /\ m_newTrajectoryMergeCounter = SingleSetGoal.counter
        /\ m_desiredPosition =
              IF m_mergePoints # <<>> /\ Front(m_mergePoints) > PlannerLeadTime
              THEN lastOp.arg
              ELSE IF goalPair.start.required THEN goalPair.start.desired
              ELSE goalPair.first

C6_SecondGoalIgnored ==
    /\ goalPair.n = 2
    /\ lastOp.op = "setGoal" /\ lastOp.ok
    /\ ~goalPair.start.required
    /\ m_desiredPosition = goalPair.first
    /\ m_desiredPosition # lastOp.arg

\* A tick that asks the planner, splices or tries to splice for a re-plan
\* that was requested before the last stopWalking.
StaleReplanStep ==
    /\ lastOp.op = "updateModule" /\ lastOp.stale
    /\ lastOp.asked \/ lastOp.spliced \/ lastOp.failedAt = "splice"

\* C7 as stated: after a successful stopWalking the re-plan flag is false,
\* and no later tick calls the planner or splices for a request made before
\* the stop.
C7_ReplanDroppedByStop ==
    /\ (lastOp.op = "stopWalking" /\ lastOp.ok) => ~m_newTrajectoryRequired
    /\ ~StaleReplanStep

PausedFrame ==
    <<m_time, m_desiredPosition, Scheduler, m_mergePoints, Buffers>>

\* C8: pauseWalking returns true exactly when the FSM state is Walking, then
\* the state becomes Paused and otherwise it stays; the call leaves the
\* trajectory buffers, the merge points, the time, the desired position, the
\* re-plan flag and the countdown as they were, and so does every tick that
\* runs while the state is Paused.
C8_PauseKeepsState ==
    [][/\ PauseWalking =>
            /\ (lastOp'.ok <=> m_robotState = "Walking")
            /\ (lastOp'.ok => m_robotState' = "Paused")
            /\ (~lastOp'.ok => m_robotState' = m_robotState)
            /\ UNCHANGED PausedFrame
       /\ (m_robotState = "Paused" /\ UpdateModule) =>
            (m_robotState' = "Paused" /\ UNCHANGED PausedFrame)]_vars

C8_TickWhilePaused ==
    /\ m_robotState = "Paused"
    /\ lastOp.op = "updateModule"
    /\ m_newTrajectoryRequired
    /\ m_time > 0

\* C9: after startWalking, pauseWalking, startWalking from the Prepared state,
\* with no Walking tick in between, the trajectory buffers, the merge points,
\* the time, the re-plan flag and the countdown are what they were in that
\* Prepared state.
C9_RoundTrip ==
    roundTrip.phase = 4 => (m_robotState = "Walking" /\ CurrentSnapshot = roundTrip.snap)

C9_WalkingAgain ==
    /\ roundTrip.phase = 4
    /\ roundTrip.snap.mergePoints # <<>>
    /\ lastOp.op = "startWalking" /\ lastOp.from = "Paused"

SharedState ==
    <<m_robotState, m_time, m_desiredPosition, Scheduler, m_mergePoints, Buffers>>

\* C10 as stated: a command touches the shared state only while it holds
\* m_mutex, so while updateModule holds m_mutex no step of a command changes
\* the FSM state, the buffers, the merge points, the time, the desired
\* position, the re-plan flag or the countdown.
C10_CommandsHoldMutex ==
    [][(m_mutex = "updateModule" /\ m_mutex' = "updateModule") =>
         UNCHANGED SharedState]_vars

PreparingTickError ==
    /\ lastOp.op = "updateModule" /\ lastOp.from = "Preparing"
    /\ lastOp.failedAt \in {"feedback", "motion_done"}

WalkingTickDone ==
    lastOp.op = "updateModule" /\ lastOp.from = "Walking" /\ lastOp.ok

\* C12 as stated: a successful Walking tick sends exactly one kind of joint
\* command, and with use_QP-IK enabled it is a position command.
C12_PositionCommandInIK ==
    WalkingTickDone =>
        /\ Len(lastOp.commands) = 1
        /\ configuration.m_useQPIK => lastOp.commands = <<"position">>

\* C12: a successful Walking tick sends exactly one joint command and it is
\* a torque command, with use_QP-IK enabled as well as disabled.
C12_TorqueCommandOnly ==
    WalkingTickDone => lastOp.commands = <<"torque">>

C12_TorqueCommandInIK ==
    /\ WalkingTickDone
    /\ configuration.m_useQPIK
    /\ "qp" \in Range(lastOp.steps)
    /\ lastOp.commands = <<"torque">>

BufferLength(b) == IF b \in ContentBuffers THEN Len(m_buffers[b]) ELSE m_bufferSizes[b]

\* C13: all sixteen trajectory buffers have the same length, which is at
\* least one planner horizon once prepareRobot has succeeded, and a Walking
\* tick that advances the references without splicing turns every buffer
\* into its tail followed by a copy of its last sample, so that no length
\* changes.
C13_EqualLengths ==
    [][/\ \A b \in BufferNames : BufferLength(b)' = BufferLength("m_leftTrajectory")'
       /\ m_robotState' \notin {"Configured"} =>
              m_bufferSizes'["m_leftTrajectory"] >= HorizonLen
       /\ (m_robotState = "Walking" /\ lastOp'.op = "updateModule" /\ lastOp'.ok
           /\ ~lastOp'.spliced /\ UpdateModule) =>
              /\ m_bufferSizes' = m_bufferSizes
              /\ \A b \in ContentBuffers :
                     m_buffers'[b] = Tail(m_buffers[b]) \o <<Back(m_buffers[b])>>]_vars

C13_LongerAfterSplice ==
    /\ WalkingTickDone
    /\ m_bufferSizes["m_weightInRight"] = SpliceCountdown + HorizonLen
    /\ Len(m_buffers["m_DCMPositionDesired"]) = SpliceCountdown + HorizonLen
    /\ m_time > PlannerLeadTime

\* C14: while the FSM state is Walking the stored merge points are strictly
\* increasing and each is smaller than the length of the trajectory buffers.
C14_MergePointsOrdered ==
    m_robotState = "Walking" =>
        /\ \A i \in 1..(Len(m_mergePoints) - 1) : m_mergePoints[i] < m_mergePoints[i + 1]
        /\ \A i \in 1..Len(m_mergePoints) :
               m_mergePoints[i] < Len(m_buffers["m_DCMPositionDesired"])

C14_TwoMergePointsAfterSplice ==
    /\ WalkingTickDone /\ lastOp.spliced
    /\ m_robotState = "Walking"
    /\ Len(m_mergePoints) = 2

\* C15 as stated: after a successful stopWalking the trajectory buffers and
\* the merge-point queue are empty.
C15_ClearedOnStop ==
    (lastOp.op = "stopWalking" /\ lastOp.ok) =>
        /\ m_mergePoints = <<>>
        /\ \A b \in BufferNames : BufferLength(b) = 0

\* C15: stopWalking leaves the trajectory buffers and the merge-point queue
\* as they are, so after a successful stopWalking every buffer still holds
\* the samples it held during Walking.
C15_KeptOnStop ==
    [][StopWalking =>
         /\ UNCHANGED <<Buffers, m_mergePoints>>
         /\ lastOp'.ok => \A b \in BufferNames : BufferLength(b)' >= HorizonLen]_vars

C15_StoppedWithMergePoints ==
    /\ lastOp.op = "stopWalking" /\ lastOp.ok
    /\ m_robotState = "Stopped"
    /\ m_mergePoints # <<>>
    /\ m_time > 0

\* The countdown of the rule of C16.
CountdownRule(mp) ==
    IF mp = <<>> THEN PlannerLeadTime
    ELSE IF Front(mp) > PlannerLeadTime THEN Front(mp)
    ELSE IF Len(mp) > 1 THEN mp[2]
    ELSE PlannerLeadTime

\* C16 as stated: whenever setGoal's setPlannerInput returns true the
\* countdown is the one of the rule, the desired position is (x, y) and the
\* re-plan flag is true.
C16_AcceptedSetsCountdown ==
    [][(m_robotState = "Walking" /\ SetGoal /\ lastOp'.ok) =>
         /\ m_newTrajectoryMergeCounter' = CountdownRule(m_mergePoints)
         /\ m_desiredPosition' = lastOp'.arg
         /\ m_newTrajectoryRequired']_vars

\* C16: setPlannerInput returns false, changing nothing, when no merge point
\* exists and the feet are not both in contact.  Otherwise it returns true;
\* when no re-plan is pending, or the first merge point is greater than 10,
\* the countdown is the one of the rule, the desired position becomes (x, y)
\* and the re-plan flag becomes true; when a re-plan is pending and there is
\* no first merge point greater than 10, nothing is changed.
C16_CountdownRule ==
    [][(m_robotState = "Walking" /\ SetGoal) =>
         IF m_mergePoints = <<>> /\ ~bothFeetInContact(m_buffers)
         THEN ~lastOp'.ok /\ UNCHANGED <<m_desiredPosition, Scheduler>>
         ELSE /\ lastOp'.ok
              /\ IF ~m_newTrajectoryRequired
                    \/ (m_mergePoints # <<>> /\ Front(m_mergePoints) > PlannerLeadTime)
                 THEN /\ m_newTrajectoryMergeCounter' = CountdownRule(m_mergePoints)
                      /\ m_desiredPosition' = lastOp'.arg
                      /\ m_newTrajectoryRequired'
                 ELSE UNCHANGED <<m_desiredPosition, Scheduler>>]_vars

C16_CountdownFromSecondMergePoint ==
    /\ lastOp.op = "setGoal" /\ lastOp.ok
    /\ Len(m_mergePoints) > 1
    /\ Front(m_mergePoints) <= PlannerLeadTime
    /\ m_newTrajectoryMergeCounter = m_mergePoints[2]
    /\ m_desiredPosition = lastOp.arg

\* A tick that reached updateTrajectories at countdown 2.
SpliceAttempted == lastOp.spliced \/ lastOp.failedAt = "splice"

\* C17 as stated: every splice is preceded by a planner call made for the
\* same request.
C17_SplicePrecededByCall ==
    (lastOp.op = "updateModule" /\ SpliceAttempted) => lastOp.request.called

\* C17: the planner is called in the tick that enters the re-plan block with
\* countdown 10 and the splice happens in the tick that enters it with
\* countdown 2; a splice is preceded by a planner call for the same request
\* exactly when the request's countdown was set to 10 or more, and a request
\* whose countdown was taken from a second merge point less than 10 samples
\* ahead is spliced with no planner call.
C17_CallOnlyFromLeadTime ==
    lastOp.op = "updateModule" =>
        /\ lastOp.asked =>
               (m_newTrajectoryRequired
                /\ m_newTrajectoryMergeCounter = PlannerLeadTime - 1)
        /\ lastOp.spliced =>
               (~m_newTrajectoryRequired
                /\ m_newTrajectoryMergeCounter = SpliceCountdown - 1)
        /\ SpliceAttempted => (lastOp.request.called <=> ~lastOp.request.late)

C17_SplicedWithoutCall ==
    /\ lastOp.op = "updateModule" /\ lastOp.ok /\ lastOp.spliced
    /\ lastOp.request.late /\ ~lastOp.request.called
    /\ ~lastOp.stale

\* Whether one of the deques tested at lines 44-50 is empty.
CheckedBufferEmpty ==
    \E b \in CheckedBuffers : isEmptyBuffer(m_buffers, m_bufferSizes, b)

\* C18: a successful advanceReferenceSignals takes one from every merge point
\* and then drops the head if it is zero, an empty merge-point deque stays
\* empty, and with a checked deque empty the call returns false and leaves
\* every deque and merge point as it was.
C18_AdvanceContract ==
    [][lastOp'.op = "advanceReferenceSignals" =>
         IF CheckedBufferEmpty
         THEN /\ ~lastOp'.ok
              /\ m_buffers' = m_buffers
              /\ m_bufferSizes' = m_bufferSizes
              /\ m_mergePoints' = m_mergePoints
         ELSE /\ lastOp'.ok
              /\ m_mergePoints = <<>> => m_mergePoints' = <<>>
              /\ (m_mergePoints # <<>> /\ Front(m_mergePoints) = 1) =>
                     m_mergePoints' = [i \in 1..(Len(m_mergePoints) - 1) |->
                                         m_mergePoints[i + 1] - 1]
              /\ (m_mergePoints # <<>> /\ Front(m_mergePoints) # 1) =>
                     m_mergePoints' = [i \in 1..Len(m_mergePoints) |->
                                         m_mergePoints[i] - 1]]_vars

\* A successful call has dropped a head that reached zero and kept the
\* merge point behind it, one lower.
C18_HeadDropped ==
    /\ lastOp.op = "advanceReferenceSignals"
    /\ lastOp.ok
    /\ Len(lastOp.advancedFrom) = 2
    /\ Front(lastOp.advancedFrom) = 1
    /\ m_mergePoints = <<lastOp.advancedFrom[2] - 1>>

\* The DCM reference deque.
DCMReference(buf) == buf["m_DCMPositionDesired"]

\* C19 as stated: the references are advanced right after the ZMP evaluation,
\* so the step adaptor and the controllers read the advanced front samples.
C19_AdvanceAfterZMP ==
    [][(m_robotState = "Walking" /\ m_time' = m_time + 1) =>
          /\ IndexOf(lastOp'.steps, "advance_references")
                = IndexOf(lastOp'.steps, "zmp") + 1
          /\ lastOp'.reference = Front(DCMReference(m_buffers'))]_vars

\* C19: a Walking tick that runs to its end goes through feedback read, FK
\* update, ZMP evaluation, step adaptation (in single support), outer DCM
\* control, inner ZMP-CoM control, QP solve, command output and the reference
\* advance, in this order: the controllers read the front samples as they
\* are before the advance, and a tick that fails at one of these steps has
\* not advanced the references.
C19_AdvanceLast ==
    [][/\ (m_robotState = "Walking" /\ m_time' = m_time + 1) =>
             /\ lastOp'.steps \in
                   {<<"feedback", "fk_update", "zmp", "step_adaptor", "dcm_controller",
                      "zmp_controller", "qp", "torque_command", "advance_references">>,
                    <<"feedback", "fk_update", "zmp", "stored_foot_references",
                      "dcm_controller", "zmp_controller", "qp", "torque_command",
                      "advance_references">>}
             /\ lastOp'.reference = Front(DCMReference(m_buffers))
             /\ Front(DCMReference(m_buffers')) = DCMReference(m_buffers)[2]
       /\ (m_robotState = "Walking" /\ running /\ ~running'
           /\ lastOp'.failedAt \in LateSteps) =>
             /\ "advance_references" \notin Range(lastOp'.steps)
             /\ Back(lastOp'.steps) = lastOp'.failedAt
             /\ m_time' = m_time
             /\ ~lastOp'.spliced =>
                    (m_buffers' = m_buffers /\ m_mergePoints' = m_mergePoints)]_vars

\* A Walking tick has run every step, the step adaptor included, and the
\* DCM reference its controllers read is the sample in front of the one the
\* advance has left at the front.
C19_ReadBeforeAdvance ==
    /\ WalkingTickDone
    /\ "step_adaptor" \in Range(lastOp.steps)
    /\ Back(lastOp.steps) = "advance_references"
    /\ lastOp.reference # NoSample
    /\ Front(DCMReference(m_buffers)) = lastOp.reference + 1

\* Whether exactly one foot is in contact at the front sample.
SingleSupport(buf) ==
    Front(buf["m_leftInContact"]) # Front(buf["m_rightInContact"])

\* C20: a Walking tick that gets past the ZMP evaluation and the DCM lookup
\* enters the step adaptor exactly when the front sample is single support;
\* in double support it copies the stored adapted foot references instead.
C20_AdaptorOnlyInSingleSupport ==
    [][(/\ m_robotState = "Walking"
        /\ m_time' = m_time + 1 \/ (running /\ ~running')
        /\ "zmp" \in Range(lastOp'.steps)
        /\ lastOp'.failedAt \notin {"zmp", "dcm_lookup"}) =>
          /\ "step_adaptor" \in Range(lastOp'.steps) <=> SingleSupport(m_buffers)
          /\ "stored_foot_references" \in Range(lastOp'.steps)
                <=> bothFeetInContact(m_buffers)]_vars

\* A Walking tick has run the step adaptor with the left foot in the air.
C20_AdaptorInSwing ==
    /\ WalkingTickDone
    /\ "step_adaptor" \in Range(lastOp.steps)
    /\ "stored_foot_references" \notin Range(lastOp.steps)
    /\ SingleSupport(m_buffers)

\* The last handler was WalkingQPIK_osqp::solve and the optimizer returned a
\* solution.
QPIKSolved ==
    lastOp.op = "WalkingQPIK_osqp::solve" /\ m_QPIKSolver.solved

\* C21 as stated: solve fails whenever a row is more than 1.0 outside its
\* bounds.
C21_InfeasibleFails ==
    (QPIKSolved /\ m_QPIKSolver.violation > IKTolerance) => ~lastOp.ok

\* C21: the optimizer returned a solution with a row more than 1.0 outside
\* its bounds and solve returned success.
C21_InfeasibleAccepted ==
    /\ QPIKSolved
    /\ m_QPIKSolver.violation > IKTolerance
    /\ lastOp.ok
    /\ m_QPIKSolver.m_isSolutionEvaluated

\* The last handler was TaskBasedTorqueSolver::solve.
TorqueSolveDone == lastOp.op = "TaskBasedTorqueSolver::solve"

ZMPEvaluated ==
    lastOp.op = "updateModule" /\ lastOp.from = "Walking" /\ "zmp" \in Range(lastOp.steps)

\* C23: evaluateZMP fails exactly when the two vertical forces sum to less
\* than 0.1, the tick then ends at it with no controller run and no command
\* sent, and a foot with a vertical force below 0.001 has no weight in the
\* ZMP.
C23_ZMPFailsOnLowTotal ==
    ZMPEvaluated =>
        /\ lastOp.failedAt = "zmp" <=> lastOp.zmp.left + lastOp.zmp.right < ZMPTotalThreshold
        /\ lastOp.zmp.ok <=> lastOp.failedAt # "zmp"
        /\ lastOp.failedAt = "zmp" =>
              /\ ~lastOp.ok
              /\ Back(lastOp.steps) = "zmp"
              /\ Range(lastOp.steps) \cap LateSteps = {}
              /\ lastOp.commands = <<>>
        /\ lastOp.zmp.leftWeight # 0 => lastOp.zmp.left >= ZMPFootThreshold
        /\ lastOp.zmp.rightWeight # 0 => lastOp.zmp.right >= ZMPFootThreshold
        /\ lastOp.zmp.left >= ZMPFootThreshold => lastOp.zmp.leftWeight = lastOp.zmp.left
        /\ lastOp.zmp.right >= ZMPFootThreshold => lastOp.zmp.rightWeight = lastOp.zmp.right

\* A Walking tick has failed at evaluateZMP with one foot loaded above 0.001
\* and the other below it.
C23_LowTotalWithLoadedFoot ==
    /\ ZMPEvaluated
    /\ lastOp.failedAt = "zmp"
    /\ ~running
    /\ lastOp.zmp.left >= ZMPFootThreshold
    /\ lastOp.zmp.right < ZMPFootThreshold /\ lastOp.zmp.right > 0

-----------------------------------------------------------------------------
(* The decision vector of the torque QP. *)

\* The four parts of the decision vector for nJ joints, as sets of columns.
AccelerationRange(nJ) == 0..(nJ + 6 - 1)

TorqueRange(nJ) == (nJ + 6)..(2 * nJ + 6 - 1)

LeftWrenchRange(nJ) == (2 * nJ + 6)..(2 * nJ + 12 - 1)

RightWrenchRange(nJ) == (2 * nJ + 12)..(2 * nJ + 18 - 1)

\* The part of the decision vector each getter and each element belongs to.
LayoutPart(name, nJ, support) ==
    CASE name \in {"desiredJointTorque", "regularization_torque", "rate_of_change"}
           -> TorqueRange(nJ)
      [] name \in {"getLeftWrench", "getStanceWrench", "left_force", "stance_force",
                   "regularization_left_force", "regularization_stance_force"}
           -> LeftWrenchRange(nJ)
      [] name \in {"getRightWrench", "right_force", "regularization_right_force"}
           -> RightWrenchRange(nJ)
      [] name = "zmp"
           -> IF support = "double"
              THEN LeftWrenchRange(nJ) \cup RightWrenchRange(nJ)
              ELSE LeftWrenchRange(nJ)
      [] OTHER -> {}

LayoutUsed == lastOp.columns # <<>>

\* C24: for every joint count the decision vector has 2*nJ+18 entries in
\* double support and 2*nJ+12 in single support; the acceleration, torque,
\* left (or stance) wrench and right wrench ranges are disjoint and fill it;
\* and every getter and every torque, force-regularization, rate-of-change,
\* ZMP and force-constraint element works on exactly the range of its part,
\* entry by entry in increasing order.
C24_DecisionVectorLayout ==
    LET nJ == torqueSolver.m_actuatedDOFs
        support == torqueSolver.support
        n == torqueSolver.m_numberOfVariables
        parts == IF support = "double"
                 THEN <<AccelerationRange(nJ), TorqueRange(nJ), LeftWrenchRange(nJ),
                        RightWrenchRange(nJ)>>
                 ELSE <<AccelerationRange(nJ), TorqueRange(nJ), LeftWrenchRange(nJ)>>
    IN  /\ n = IF support = "double" THEN 2 * nJ + 18 ELSE 2 * nJ + 12
        /\ UNION Range(parts) = 0..(n - 1)
        /\ \A i, j \in DOMAIN parts : i # j => parts[i] \cap parts[j] = {}
        /\ LayoutUsed =>
             /\ Range(lastOp.columns) = LayoutPart(lastOp.op, nJ, support)
             /\ \A i \in DOMAIN lastOp.columns :
                  i > 1 => lastOp.columns[i] = lastOp.columns[i - 1] + 1

\* C24 witness: the right wrench is read back in double support with the
\* largest number of joints.
C24_RightWrenchRead ==
    /\ lastOp.op = "getRightWrench"
    /\ torqueSolver.support = "double"
    /\ torqueSolver.m_actuatedDOFs = MaxJoints
    /\ Range(lastOp.columns) = RightWrenchRange(MaxJoints)

-----------------------------------------------------------------------------
(* Initial data and updates of the optimizer. *)

\* The calls a solve() makes on the optimizer when nothing fails.
ExpectedCalls(initialized) ==
    IF initialized
    THEN [i \in 1..4 |-> <<"update", SolveStages[i]>>] \o << <<"call", "solve">> >>
    ELSE [i \in 1..4 |-> <<"set", SolveStages[i]>>]
         \o << <<"call", "initSolver">>, <<"call", "solve">> >>

IsPrefix(a, b) == Len(a) <= Len(b) /\ a = SubSeq(b, 1, Len(a))

\* One solve() on a solver object: the calls it makes are those of an
\* uninitialized or of an initialized optimizer up to the first failure, all
\* of them when the optimizer solved, and an initialized optimizer stays
\* initialized.
SolveDiscipline(before, after) ==
    /\ after.calls # <<>>
    /\ IsPrefix(after.calls, ExpectedCalls(before.initialized))
    /\ after.solved => after.calls = ExpectedCalls(before.initialized)
    /\ before.initialized => after.initialized
    /\ after.initialized /\ ~before.initialized
         => <<"call", "initSolver">> \in Range(after.calls)

\* C25: for both QP solvers, over any sequence of solve() calls, a solve on
\* an optimizer that is not initialized sets Hessian, gradient, constraint
\* matrix and bounds as initial data and calls initSolver; once the optimizer
\* is initialized every later solve passes the four through the update calls
\* only and never calls initSolver, also after a solve that failed.
C25_InitThenUpdate ==
    [][/\ lastOp'.op = "WalkingQPIK_osqp::solve"
          => SolveDiscipline(m_QPIKSolver, m_QPIKSolver')
       /\ lastOp'.op = "TaskBasedTorqueSolver::solve"
          => SolveDiscipline(torqueSolver, torqueSolver')]_vars

\* C25 witness: the IK solver has failed in the optimizer on an initialized
\* optimizer after its four updates, and the torque solver has solved on an
\* initialized optimizer through the update calls.
C25_UpdatedAfterFailure ==
    /\ m_QPIKSolver.wasInitialized /\ m_QPIKSolver.initialized
    /\ ~m_QPIKSolver.solved
    /\ m_QPIKSolver.calls = ExpectedCalls(TRUE)
    /\ torqueSolver.wasInitialized /\ torqueSolver.solved
    /\ torqueSolver.calls = ExpectedCalls(TRUE)

-----------------------------------------------------------------------------
(* The head of the merge-point queue. *)

\* C26 as stated: in every Walking tick the merge-point queue is non-empty
\* wherever its head is read (the automatic re-plan test and the DCM lookup),
\* and the head used for the lookup is an index of the DCM buffer.
C26_HeadReadOnNonEmptyQueue ==
    \A i \in DOMAIN lastOp.frontReads :
        ~lastOp.frontReads[i].empty /\ lastOp.frontReads[i].valid

\* A tick has read the head of an empty queue at both places and gone on to
\* its end.
C26_EmptyQueueRead ==
    /\ lastOp.op = "updateModule"
    /\ lastOp.ok
    /\ Len(lastOp.frontReads) = 2
    /\ \A i \in 1..2 : lastOp.frontReads[i].empty

-----------------------------------------------------------------------------
(* The controller objects of a configuration. *)

\* C27 as stated: for every combination of the toggles a Walking tick uses
\* only controller objects that configure() created for that combination.
C27_UsesOnlyCreatedObjects ==
    lastOp.uses \subseteq createdObjects(configuration)

\* A tick has run to its end on a step adaptor or on a reactive DCM
\* controller that configure() did not create.
C27_NullObjectUsed ==
    /\ lastOp.op = "updateModule"
    /\ lastOp.ok
    /\ \/ ~configuration.m_useStepAdaptation /\ "m_stepAdaptator" \in lastOp.uses
       \/ configuration.m_useMPC /\ "m_walkingDCMReactiveController" \in lastOp.uses

------------------------------------------------------------------------

-----------------------------------------------------------------------------
(* Completion of an accepted re-plan. *)

\* What one step does to a pending re-plan when it completes it in time: no
\* step raises the countdown, and a successful Walking tick either splices
\* (the re-plan flag returns to false) or takes the countdown one down, not
\* below the value at which the splice is done. With these the splice comes
\* within as many successful ticks as the countdown counted at acceptance.
CountdownProgress ==
    /\ m_newTrajectoryRequired' =>
          m_newTrajectoryMergeCounter' <= m_newTrajectoryMergeCounter
    /\ m_robotState = "Walking" /\ m_time' = m_time + 1 =>
          \/ ~m_newTrajectoryRequired'
          \/ /\ m_newTrajectoryMergeCounter' = m_newTrajectoryMergeCounter - 1
             /\ m_newTrajectoryMergeCounter' >= SpliceCountdown

-----------------------------------------------------------------------------
(* The countdown and the merge point it was taken from. *)

\* The countdown of the pending re-plan equals the merge point it was taken
\* from, which is still stored.
CountdownAtMergePoint ==
    /\ pendingRequest.mergePoint \in DOMAIN m_mergePoints
    /\ m_newTrajectoryMergeCounter = m_mergePoints[pendingRequest.mergePoint]

-----------------------------------------------------------------------------
(* The getters of the inverse kinematics after a solve. *)

\* C30: getSolution, getLeftFootError and getRightFootError return success
\* exactly when solve() was called and its most recent call returned
\* success; before the first solve and after a failed one they return false.
C30_GettersNeedLastSolve ==
    lastOp.op \in QPIKGetters =>
        lastOp.ok = (m_QPIKSolver.called /\ m_QPIKSolver.ret)

\* A getter has returned false after a failed solve that followed a solve
\* whose solution the getters would have given.
C30_FailedSolveHidesEarlierSolution ==
    /\ lastOp.op \in QPIKGetters
    /\ ~lastOp.ok
    /\ m_QPIKSolver.called /\ ~m_QPIKSolver.ret
    /\ m_QPIKSolver.wasEvaluated

====
